---------------------------- MODULE Spec2Model ----------------------------
(***************************************************************************)
(* CI/CD dashboard server (src/dashboard2/index.js) and its static         *)
(* generator sibling (src/unnamed/part_000): access gate, scheduler,       *)
(* aggregator and realtime poller as one state machine.                    *)
(***************************************************************************)
EXTENDS Integers, Sequences, FiniteSets, TLC

(***************************************************************************)
(* Bounds of the model                                                     *)
(***************************************************************************)
\* latest value of the wall clock (Date.now()), in clock ticks
MaxTime == 1
\* number of setTimeout timers the scheduler may arm in one behaviour
MaxTimers == 2

(***************************************************************************)
(* Program constants                                                       *)
(***************************************************************************)
MAX_RUNS_PER_WORKFLOW == 15
CONCURRENT_WORKFLOWS == 10
CONCURRENT_JOBS == 20

VARIABLES
  now,            \* Date.now()
  scheduledJobs,  \* Map jobId -> {timeoutId, repo, workflowId, ref, scheduledTime, user}
  timers,         \* setTimeout registry: timeoutId -> closure of the callback and its state
  events,         \* calls of broadcastUpdate, in order
  resp,           \* the last HTTP response sent (with the facts of its request)
  cancelOk,       \* history: the ids for which a cancel request was answered 200
  passes,         \* the aggregation passes started so far (requests and poll ticks)
  activeConnections, \* Map username -> WebSocket, in insertion order
  sockets,        \* the WebSocket objects handed to wss.on('connection')
  lastAuth,       \* history: username -> the socket of its latest auth frame
  cacheFile,      \* the content of CACHE_FILE
  batch           \* a call of batchProcess: its items, its position and its results

vars == <<now, scheduledJobs, timers, events, resp, cancelOk, passes,
          activeConnections, sockets, lastAuth, cacheFile, batch>>
schedVars == <<scheduledJobs, timers, cancelOk>>
wsVars == <<activeConnections, sockets, lastAuth>>
regVars == <<activeConnections, lastAuth>>

(***************************************************************************)
(* Configuration (config.teams, config.userRoles)                          *)
(***************************************************************************)
TeamNames == {"frontend", "backend"}

TEAMS_CONFIG ==
  [t \in TeamNames |->
     IF t = "frontend"
     THEN [apps |-> {"app1", "app2"},
           permissions |->
             [trigger_build    |-> {"developer", "lead", "admin"},
              trigger_release  |-> {"lead", "admin"},
              approve_release  |-> {"lead", "admin"},
              view_logs        |-> {"developer", "lead", "admin"},
              restart_services |-> {"lead", "admin"}]]
     ELSE [apps |-> {"app3"},
           permissions |->
             [trigger_build    |-> {"developer", "lead", "admin"},
              trigger_release  |-> {"lead", "admin"},
              approve_release  |-> {"admin"},
              view_logs        |-> {"developer", "lead", "admin"},
              restart_services |-> {"admin"}]]]

UserNames == {"john.doe", "jane.smith", "alice.frontend", "bob.backend",
              "charlie.devops", "dev1", "dev2", "dev3", "viewer.user"}

USER_ROLES ==
  [u \in UserNames |->
     CASE u = "john.doe"       -> [role |-> "admin", teams |-> {"frontend", "backend", "devops", "data"}]
       [] u = "jane.smith"     -> [role |-> "admin", teams |-> {"frontend", "devops", "data"}]
       [] u = "alice.frontend" -> [role |-> "lead", teams |-> {"frontend"}]
       [] u = "bob.backend"    -> [role |-> "lead", teams |-> {"backend"}]
       [] u = "charlie.devops" -> [role |-> "lead", teams |-> {"devops"}]
       [] u = "dev1"           -> [role |-> "developer", teams |-> {"frontend"}]
       [] u = "dev2"           -> [role |-> "developer", teams |-> {"backend"}]
       [] u = "dev3"           -> [role |-> "developer", teams |-> {"frontend", "backend"}]
       [] OTHER                -> [role |-> "viewer", teams |-> {"frontend", "backend"}]]

\* fs.existsSync(CACHE_FILE) is false
NoFile == [exists |-> FALSE]

\* batchProcess is not running
NoBatch == [st |-> "none"]

\* req.session.username absent, and req.body.team absent
NoSession == "<none>"
NoTeam == "<missing>"

(***************************************************************************)
(* Access gate                                                             *)
(***************************************************************************)
\* TEAMS_CONFIG and USER_ROLES are plain objects: obj[key] also finds the
\* properties every object inherits (Object.prototype), and these are truthy
InheritedKeys == {"constructor"}

\* obj[key] is truthy
Truthy(obj, key) == key \in DOMAIN obj \cup InheritedKeys

\* requireAuth: 0 = next(), otherwise the status sent
requireAuth(username) ==
  IF username # NoSession /\ Truthy(USER_ROLES, username) THEN 0 ELSE 401

\* the mutant of checkPermission: no branch for GET requests
checkPermissionAlways(action, method, username, team) ==
  IF team = NoTeam THEN [code |-> 400, required |-> {}]
  ELSE IF ~Truthy(TEAMS_CONFIG, team) THEN [code |-> 404, required |-> {}]
  ELSE IF username \notin DOMAIN USER_ROLES THEN [code |-> 500, required |-> {}]
  ELSE IF team \notin USER_ROLES[username].teams THEN [code |-> 403, required |-> {}]
  ELSE IF team \notin DOMAIN TEAMS_CONFIG THEN [code |-> 500, required |-> {}]
  ELSE IF USER_ROLES[username].role \notin TEAMS_CONFIG[team].permissions[action]
       THEN [code |-> 403, required |-> TEAMS_CONFIG[team].permissions[action]]
  ELSE [code |-> 0, required |-> {}]

\* the mutant of checkPermission: the role is not looked at
checkPermissionNoRole(action, method, username, team) ==
  IF method = "GET" THEN [code |-> 0, required |-> {}]
  ELSE IF team = NoTeam THEN [code |-> 400, required |-> {}]
  ELSE IF ~Truthy(TEAMS_CONFIG, team) THEN [code |-> 404, required |-> {}]
  ELSE IF username \notin DOMAIN USER_ROLES THEN [code |-> 500, required |-> {}]
  ELSE IF team \notin USER_ROLES[username].teams THEN [code |-> 403, required |-> {}]
  ELSE [code |-> 0, required |-> {}]

\* checkPermission(action)(req): [code |-> 0] = next(), otherwise the response.
\* 500: req.user.teams (or teamConfig.permissions) is undefined, the middleware
\* throws a TypeError and the default error handler answers
checkPermission(action, method, username, team) ==
  IF method = "GET" THEN [code |-> 0, required |-> {}]
  ELSE IF team = NoTeam THEN [code |-> 400, required |-> {}]
  ELSE IF ~Truthy(TEAMS_CONFIG, team) THEN [code |-> 404, required |-> {}]
  ELSE IF username \notin DOMAIN USER_ROLES THEN [code |-> 500, required |-> {}]
  ELSE IF team \notin USER_ROLES[username].teams THEN [code |-> 403, required |-> {}]
  ELSE IF team \notin DOMAIN TEAMS_CONFIG THEN [code |-> 500, required |-> {}]
  ELSE IF USER_ROLES[username].role \notin TEAMS_CONFIG[team].permissions[action]
       THEN [code |-> 403, required |-> TEAMS_CONFIG[team].permissions[action]]
  ELSE [code |-> 0, required |-> {}]

\* the middleware chain of a route: requireAuth, then checkPermission when the route has it
Gate(action, method, username, team) ==
  IF requireAuth(username) # 0 THEN requireAuth(username)
  ELSE IF action = "<none>" THEN 0
  ELSE checkPermission(action, method, username, team).code

\* POST /api/auth/login with a lower-case, trimmed username: the username the
\* session holds afterwards, NoSession when the login is refused
DEFAULT_PASSWORD == "password123"

Login(username, password) ==
  IF ~Truthy(USER_ROLES, username) THEN NoSession
  ELSE IF password # DEFAULT_PASSWORD THEN NoSession
  ELSE username

\* the usernames login requests carry: three of the registry, one that is an
\* inherited property name and one that is unknown
LoginNames == {"dev1", "viewer.user", "john.doe", "constructor", "mallory"}

\* the sessions requests can arrive with
Sessions == {NoSession} \cup {Login(n, p) : n \in LoginNames,
                                            p \in {DEFAULT_PASSWORD, "guess"}}

(***************************************************************************)
(* Scheduler                                                               *)
(***************************************************************************)
\* new Date(scheduledTime): a time value, or Invalid Date for a missing or
\* unparseable input
ParseDate(input) ==
  IF input.kind = "time" THEN [valid |-> TRUE, ms |-> input.t]
  ELSE [valid |-> FALSE, ms |-> 0]

\* the mutant of DateLE: < for <=
DateLT(a, b) == a.valid /\ b.valid /\ a.ms < b.ms

\* scheduleDate <= new Date(): every comparison with Invalid Date (NaN) is false
DateLE(a, b) == a.valid /\ b.valid /\ a.ms <= b.ms

\* `${repo}-${workflowId}-${Date.now()}`: names are sequences of dash-free
\* tokens, so joining with "-" is the concatenation of the token sequences
MakeJobId(repo, workflowId, t) == repo \o workflowId \o <<t>>

\* setTimeout(cb, scheduleDate - new Date()): a delay that is NaN or below 1
\* is run as 1
TimerDue(date, t) ==
  IF date.valid /\ date.ms - t >= 1 THEN date.ms ELSE t + 1

Remove(f, k) == [x \in DOMAIN f \ {k} |-> f[x]]

Put(f, k, v) == [x \in DOMAIN f \cup {k} |-> IF x = k THEN v ELSE f[x]]

\* broadcastUpdate(type, data): the message handed to the sockets
broadcastUpdate(log, type, data) == Append(log, [type |-> type, data |-> data])

\* the entries of activeConnections that hold socket s
EntriesOf(reg, s) == {i \in 1..Len(reg) : reg[i].ws = s}

RECURSIVE Repeat(_, _)
Repeat(msg, n) == IF n = 0 THEN <<>> ELSE <<msg>> \o Repeat(msg, n - 1)

\* the mutant of Send: the loop ends at the first entry whose socket is not OPEN
SendUntilStale(socks, reg, msg) ==
  LET stale == {i \in 1..Len(reg) : socks[reg[i].ws].readyState # "OPEN"}
      reached == {i \in 1..Len(reg) : \A j \in stale : i < j}
  IN [s \in 1..Len(socks) |->
        [socks[s] EXCEPT !.inbox = @ \o Repeat(msg,
                                     Cardinality(EntriesOf(reg, s) \cap reached))]]

\* activeConnections.forEach: ws.send(message) once for every entry whose
\* socket is OPEN; the other entries are passed over
Send(socks, reg, msg) ==
  [s \in 1..Len(socks) |->
     IF socks[s].readyState = "OPEN"
     THEN [socks[s] EXCEPT !.inbox = @ \o Repeat(msg, Cardinality(EntriesOf(reg, s)))]
     ELSE socks[s]]

\* the entries of activeConnections whose socket is OPEN
OpenEntries ==
  {i \in 1..Len(activeConnections) :
     sockets[activeConnections[i].ws].readyState = "OPEN"}

\* the sockets after the broadcastUpdate call of this step, if it made one
Delivered ==
  IF events' = events THEN sockets
  ELSE Send(sockets, activeConnections, events'[Len(events')])

\* request bodies: two (repo, workflowId) pairs that join to the same text
SchedTargets == {<<(<<"r">>), (<<"w", "y">>)>>, <<(<<"r", "w">>), (<<"y">>)>>}
\* scheduledTime: a time, or a missing or unparseable value
TimeInputs == {[kind |-> "time", t |-> n] : n \in 0..(MaxTime + 1)}
               \cup {[kind |-> "invalid"]}
SchedUsers == {"alice.frontend", NoSession}
SchedTeams == {"frontend"}

\* POST /api/schedule/workflow
ScheduleWorkflow(user, team, repo, workflowId, st) ==
  LET gate == Gate("trigger_release", "POST", user, team)
      scheduleDate == ParseDate(st)
      today == [valid |-> TRUE, ms |-> now]
      jobId == MakeJobId(repo, workflowId, now)
      timeoutId == Len(timers) + 1
  IN
  /\ UNCHANGED <<now, events, cancelOk, passes, wsVars, cacheFile, batch>>
  /\ IF gate # 0
     THEN /\ UNCHANGED <<scheduledJobs, timers>>
          /\ resp' = [op |-> "schedule", code |-> gate, gate |-> FALSE,
                      user |-> user, team |-> team, gateway |-> FALSE,
                      perm |-> FALSE, changed |-> FALSE,
                      required |-> IF requireAuth(user) # 0 THEN {}
                                   ELSE checkPermission("trigger_release", "POST",
                                                        user, team).required]
     ELSE IF DateLE(scheduleDate, today)
     THEN /\ UNCHANGED <<scheduledJobs, timers>>
          /\ resp' = [op |-> "schedule", code |-> 400, gate |-> TRUE,
                      isTime |-> (st.kind = "time"),
                      past |-> (st.kind = "time" /\ st.t <= now),
                      user |-> user, team |-> team, gateway |-> FALSE,
                      perm |-> TRUE, required |-> {},
                      changed |-> (scheduledJobs' # scheduledJobs \/ timers' # timers)]
     ELSE /\ Len(timers) < MaxTimers
          /\ timers' = Append(timers,
                 [jobId |-> jobId, valid |-> scheduleDate.valid,
                  due |-> TimerDue(scheduleDate, now), st |-> "armed",
                  revoked |-> FALSE])
          /\ scheduledJobs' = Put(scheduledJobs, jobId,
                 [timeoutId |-> timeoutId, repo |-> repo, workflowId |-> workflowId,
                  scheduledTime |-> st, user |-> user])
          /\ resp' = [op |-> "schedule", code |-> 200, gate |-> TRUE,
                      isTime |-> (st.kind = "time"),
                      past |-> (st.kind = "time" /\ st.t <= now),
                      user |-> user, team |-> team, gateway |-> FALSE,
                      perm |-> TRUE, required |-> {},
                      changed |-> (scheduledJobs' # scheduledJobs \/ timers' # timers)]

\* what had become of an id when a cancel request for it arrived
IdHistory(jobId) ==
  LET mine == {t \in 1..Len(timers) : timers[t].jobId = jobId} IN
  IF mine = {} THEN "never"
  ELSE IF \A t \in mine : timers[t].st \in {"awaiting", "done"} THEN "fired"
  ELSE IF \A t \in mine : timers[t].st = "cleared" THEN "cancelled"
  ELSE "live"

\* clearTimeout(id): disarms a timer that has not run; a no-op on any other
clearTimeout(tm, id) ==
  [t \in 1..Len(tm) |->
     IF t = id /\ tm[t].st = "armed" THEN [tm[t] EXCEPT !.st = "cleared"] ELSE tm[t]]

\* POST /api/schedule/cancel/:jobId
CancelScheduled(user, jobId) ==
  LET gate == Gate("<none>", "POST", user, NoTeam) IN
  /\ UNCHANGED <<now, events, passes, wsVars, cacheFile, batch>>
  /\ IF gate # 0
     THEN /\ UNCHANGED <<scheduledJobs, timers, cancelOk>>
          /\ resp' = [op |-> "cancel", code |-> gate, gate |-> FALSE,
                      user |-> user, gateway |-> FALSE, perm |-> FALSE,
                      changed |-> FALSE]
     ELSE IF jobId \notin DOMAIN scheduledJobs
     THEN /\ UNCHANGED <<scheduledJobs, timers, cancelOk>>
          /\ resp' = [op |-> "cancel", code |-> 404, gate |-> TRUE,
                      user |-> user, gateway |-> FALSE, perm |-> FALSE,
                      changed |-> FALSE, pre |-> IdHistory(jobId)]
     ELSE /\ LET cleared == clearTimeout(timers, scheduledJobs[jobId].timeoutId)
                  \* history: the timers set under the id, when none of them
                  \* has run yet, are marked as revoked by this answer
                  unrun == \A t \in 1..Len(timers) :
                             timers[t].jobId = jobId =>
                               timers[t].st \notin {"awaiting", "done"}
              IN timers' = [t \in 1..Len(timers) |->
                              IF unrun /\ cleared[t].jobId = jobId
                              THEN [cleared[t] EXCEPT !.revoked = TRUE]
                              ELSE cleared[t]]
          /\ scheduledJobs' = Remove(scheduledJobs, jobId)
          /\ cancelOk' = cancelOk \cup {jobId}
          /\ resp' = [op |-> "cancel", code |-> 200, gate |-> TRUE,
                      user |-> user, gateway |-> FALSE, perm |-> FALSE,
                      changed |-> TRUE, pre |-> IdHistory(jobId)]

\* GET /api/schedule/list
ListScheduled(user) ==
  LET gate == Gate("<none>", "GET", user, NoTeam) IN
  /\ UNCHANGED <<now, events, scheduledJobs, timers, cancelOk, passes, wsVars, cacheFile, batch>>
  /\ resp' = IF gate # 0
             THEN [op |-> "list", code |-> gate, gate |-> FALSE, user |-> user,
                   gateway |-> FALSE]
             ELSE [op |-> "list", code |-> 200, gate |-> TRUE, user |-> user,
                   gateway |-> FALSE, ids |-> DOMAIN scheduledJobs]

\* the setTimeout callback starts: createWorkflowDispatch is called and awaited
TimerFire(t) ==
  /\ timers[t].st = "armed"
  /\ now >= timers[t].due
  /\ timers' = [timers EXCEPT ![t].st = "awaiting"]
  /\ UNCHANGED <<now, scheduledJobs, events, resp, cancelOk, passes, wsVars, cacheFile, batch>>

\* the awaited createWorkflowDispatch settles and the callback runs to its end
DispatchSettle(t, ok) ==
  /\ timers[t].st = "awaiting"
  /\ timers' = [timers EXCEPT ![t].st = "done"]
  /\ IF ok
     THEN /\ events' = broadcastUpdate(events, "scheduled_workflow_triggered",
                                            [timer |-> t])
          /\ scheduledJobs' = Remove(scheduledJobs, timers[t].jobId)
     ELSE /\ events' = broadcastUpdate(events, "scheduled_workflow_failed",
                                            [timer |-> t])
          /\ UNCHANGED scheduledJobs
  /\ sockets' = Delivered
  /\ UNCHANGED <<now, resp, cancelOk, passes, regVars, cacheFile, batch>>

AdvanceClock ==
  /\ now < MaxTime
  /\ now' = now + 1
  /\ UNCHANGED <<scheduledJobs, timers, events, resp, cancelOk, passes, wsVars, cacheFile, batch>>

KnownIds == DOMAIN scheduledJobs \cup {timers[t].jobId : t \in 1..Len(timers)}
              \cup {<<"r", "y", 0>>}   \* an id that is never scheduled

Init ==
  /\ now = 0
  /\ scheduledJobs = <<>>
  /\ timers = <<>>
  /\ events = <<>>
  /\ resp = [op |-> "none", code |-> 0, gate |-> FALSE]
  /\ cancelOk = {}
  /\ passes = <<>>
  /\ activeConnections = <<>>
  /\ sockets = <<>>
  /\ lastAuth = <<>>
  /\ cacheFile = NoFile
  /\ batch = NoBatch

NextSched ==
  \/ \E u \in SchedUsers, tm \in SchedTeams, tg \in SchedTargets,
        st \in TimeInputs : ScheduleWorkflow(u, tm, tg[1], tg[2], st)
  \/ \E u \in SchedUsers, id \in KnownIds : CancelScheduled(u, id)
  \/ \E u \in SchedUsers : ListScheduled(u)
  \/ \E t \in 1..Len(timers) : TimerFire(t)
  \/ \E t \in 1..Len(timers), ok \in BOOLEAN : DispatchSettle(t, ok)
  \/ AdvanceClock

SpecSched == Init /\ [][NextSched]_vars

(***************************************************************************)
(* Scheduler claims                                                        *)
(***************************************************************************)
Fired(t) == timers[t].st \in {"awaiting", "done"}

\* every schedule accepted so far carried a valid time: C1, C2, C3 and C6 are
\* stated for such behaviours, so that what refutes them owes nothing to the
\* acceptance of invalid times (C5)
AllTimesValid == \A t \in 1..Len(timers) : timers[t].valid

\* C1: for every id, a cancel answered ok and the firing of the id's timer
\* never both happen.
C1_CancelXorFire ==
  AllTimesValid =>
    \A t \in 1..Len(timers) : Fired(t) => timers[t].jobId \notin cancelOk

\* C2: a cancel request for an id that was never scheduled, was already
\* cancelled or has already fired is answered NotFound (404).
C2_CancelNotFound ==
  (AllTimesValid /\ resp.op = "cancel" /\ resp.gate
     /\ resp.pre \in {"never", "cancelled", "fired"})
    => resp.code = 404

\* C3: once a timer's fire has completed, exactly one event was broadcast for
\* it and its id is no longer in the scheduled-jobs table, whatever the
\* outcome of the dispatch.
C3_FireRemovesEntry ==
  AllTimesValid =>
    \A t \in 1..Len(timers) :
      timers[t].st = "done" =>
        /\ Cardinality({i \in 1..Len(events) : events[i].data.timer = t}) = 1
        /\ timers[t].jobId \notin DOMAIN scheduledJobs

\* C4: a schedule request whose time is at or before now is answered 400 and
\* changes neither the table nor the timers; a request with a time is
\* accepted only when the time is strictly later than now.
C4_PastRejected ==
  (resp.op = "schedule" /\ resp.gate /\ resp.isTime) =>
    /\ resp.past <=> resp.code = 400
    /\ resp.code = 400 => ~resp.changed
    /\ resp.code # 400 => (resp.code = 200 /\ resp.changed)

\* C4 witness: a request in the past was refused while a schedule was pending
C4_Witness ==
  /\ resp.op = "schedule" /\ resp.gate /\ resp.isTime
  /\ resp.past /\ resp.code = 400
  /\ DOMAIN scheduledJobs # {}

\* C5: a schedule request whose time is missing or unparseable is answered
\* 400, creates no table entry and arms no timer, so no dispatch ever runs
\* for it.
C5_InvalidTimeRejected ==
  /\ (resp.op = "schedule" /\ resp.gate /\ ~resp.isTime)
       => (resp.code = 400 /\ ~resp.changed)
  /\ \A t \in 1..Len(timers) : timers[t].valid

\* C6: every live timer belongs to exactly one table entry, the one under its
\* id, and every table id has exactly one live timer.
C6_OneTimerPerId ==
  AllTimesValid =>
  /\ \A t \in 1..Len(timers) :
       timers[t].st = "armed" =>
         /\ timers[t].jobId \in DOMAIN scheduledJobs
         /\ scheduledJobs[timers[t].jobId].timeoutId = t
  /\ \A id \in DOMAIN scheduledJobs :
       Cardinality({t \in 1..Len(timers) :
                      timers[t].st = "armed" /\ timers[t].jobId = id}) = 1


(***************************************************************************)
(* Aggregator: values                                                      *)
(***************************************************************************)
\* JavaScript's a || b: the empty string, the empty name and 0 are falsy
OrStr(a, b) == IF a = "" THEN b ELSE a
OrSeq(a, b) == IF a = <<>> THEN b ELSE a
OrNum(a, b) == IF a = 0 THEN b ELSE a

\* what stands for null: a record no run record can equal
NullRec == [null |-> TRUE]
IsNull(r) == "null" \in DOMAIN r

\* a name is the sequence of its dash-free tokens; the /i flag of the patterns
\* makes every spelling of a marker match
BuildMarkers == {"build", "Build", "BUILD"}
ReleaseMarkers == {"release", "Release", "RELEASE"}
ProdSpellings == {"prod", "Prod", "PROD"}
\* tokens matching [a-f0-9]{7,} under /i, with their first seven characters
HexTokens == {"abc1234", "ABC1234", "abc1234def"}
Substring7(tok) == IF tok = "abc1234def" THEN "abc1234" ELSE tok

\* if (branch === 'prod') branch = 'main'
AliasBranchExact(branch) ==
  IF branch = <<"prod">> THEN <<"main">> ELSE branch

\* if (branch.toLowerCase() === 'prod') branch = 'main'
AliasBranch(branch) ==
  IF Len(branch) = 1 /\ branch[1] \in ProdSpellings THEN <<"main">> ELSE branch

\* parseRunName with a greedy branch in the build pattern: ^(.+)-([^-]+)-build-(.+)$
parseRunNameGreedy(runName, isRelease) ==
  LET n == Len(runName) IN
  IF runName = <<>> THEN NullRec
  ELSE IF isRelease
  THEN \* ^(.+?)-([^-]+)-release-([^-]+)-([a-f0-9]{7,})$
       IF n >= 5 /\ runName[n - 2] \in ReleaseMarkers /\ runName[n] \in HexTokens
       THEN [appName |-> runName[n - 3],
             branch |-> AliasBranch(SubSeq(runName, 1, n - 4)),
             version |-> <<runName[n - 1]>>,
             commit |-> Substring7(runName[n])]
       ELSE NullRec
  ELSE \* ^(.+?)-([^-]+)-build-(.+)$ : the longest branch that lets the rest match
       LET ks == {k \in 3..(n - 1) : runName[k] \in BuildMarkers} IN
       IF ks = {} THEN NullRec
       ELSE LET k == CHOOSE x \in ks : \A y \in ks : x >= y IN
            [appName |-> runName[k - 1],
             branch |-> AliasBranch(SubSeq(runName, 1, k - 2)),
             version |-> SubSeq(runName, k + 1, n),
             commit |-> ""]

\* parseRunName(runName, isRelease)
parseRunName(runName, isRelease) ==
  LET n == Len(runName) IN
  IF runName = <<>> THEN NullRec
  ELSE IF isRelease
  THEN \* ^(.+?)-([^-]+)-release-([^-]+)-([a-f0-9]{7,})$
       IF n >= 5 /\ runName[n - 2] \in ReleaseMarkers /\ runName[n] \in HexTokens
       THEN [appName |-> runName[n - 3],
             branch |-> AliasBranch(SubSeq(runName, 1, n - 4)),
             version |-> <<runName[n - 1]>>,
             commit |-> Substring7(runName[n])]
       ELSE NullRec
  ELSE \* ^(.+?)-([^-]+)-build-(.+)$ : the shortest branch that lets the rest match
       LET ks == {k \in 3..(n - 1) : runName[k] \in BuildMarkers} IN
       IF ks = {} THEN NullRec
       ELSE LET k == CHOOSE x \in ks : \A y \in ks : x <= y IN
            [appName |-> runName[k - 1],
             branch |-> AliasBranch(SubSeq(runName, 1, k - 2)),
             version |-> SubSeq(runName, k + 1, n),
             commit |-> ""]

\* jobsData.jobs.map(job => ({...}))
MapJobs(jobs) ==
  [i \in 1..Len(jobs) |->
     [id |-> jobs[i].id, name |-> jobs[i].name,
      conclusion |-> OrStr(jobs[i].conclusion, jobs[i].status),
      status |-> jobs[i].status, steps |-> jobs[i].steps]]

\* the record with the branch taken as run.head_branch || parsed?.branch || 'N/A'
MakeRecordRemoteFirst(run, configAppName, repo, isRelease, jobs, t) ==
  LET parsed == parseRunName(run.name, isRelease)
      has == ~IsNull(parsed)
  IN
  [appName |-> IF has THEN parsed.appName ELSE configAppName,
   repo |-> repo,
   type |-> IF isRelease THEN "Release" ELSE "Build",
   version |-> IF has THEN parsed.version
               ELSE <<"build", ToString(run.run_number)>>,
   branch |-> IF run.head_branch # <<>> THEN run.head_branch
              ELSE IF has THEN parsed.branch ELSE <<"N/A">>,
   status |-> OrStr(run.status, "unknown"),
   conclusion |-> OrStr(run.conclusion, run.status),
   createdAt |-> OrNum(run.created_at, t),
   commitSha |-> IF has /\ parsed.commit # "" THEN parsed.commit
                 ELSE OrStr(Substring7(run.head_sha), "N/A"),
   jobs |-> MapJobs(jobs),
   runNumber |-> OrNum(run.run_number, 0),
   runId |-> run.id]

\* the record returned by a job task of fetchWorkflowDetails
MakeRecord(run, configAppName, repo, isRelease, jobs, t) ==
  LET parsed == parseRunName(run.name, isRelease)
      has == ~IsNull(parsed)
  IN
  [appName |-> IF has THEN parsed.appName ELSE configAppName,
   repo |-> repo,
   type |-> IF isRelease THEN "Release" ELSE "Build",
   version |-> IF has THEN parsed.version
               ELSE <<"build", ToString(run.run_number)>>,
   branch |-> IF has THEN parsed.branch ELSE OrSeq(run.head_branch, <<"N/A">>),
   status |-> OrStr(run.status, "unknown"),
   conclusion |-> OrStr(run.conclusion, run.status),
   createdAt |-> OrNum(run.created_at, t),
   commitSha |-> IF has /\ parsed.commit # "" THEN parsed.commit
                 ELSE OrStr(Substring7(run.head_sha), "N/A"),
   jobs |-> MapJobs(jobs),
   runNumber |-> OrNum(run.run_number, 0),
   runId |-> run.id]

\* a sort that is not stable: of two records of one createdAt the later one
\* of the input comes first
RECURSIVE InsertDescUnstable(_, _)
InsertDescUnstable(sorted, x) ==
  IF sorted = <<>> THEN <<x>>
  ELSE IF sorted[Len(sorted)].createdAt > x.createdAt THEN Append(sorted, x)
  ELSE Append(InsertDescUnstable(SubSeq(sorted, 1, Len(sorted) - 1), x),
              sorted[Len(sorted)])

\* .sort((a, b) => new Date(b.createdAt) - new Date(a.createdAt)): stable,
\* newest first
RECURSIVE InsertDesc(_, _)
InsertDesc(sorted, x) ==
  IF sorted = <<>> THEN <<x>>
  ELSE IF sorted[Len(sorted)].createdAt >= x.createdAt THEN Append(sorted, x)
  ELSE Append(InsertDesc(SubSeq(sorted, 1, Len(sorted) - 1), x), sorted[Len(sorted)])

RECURSIVE SortDesc(_)
SortDesc(list) ==
  IF list = <<>> THEN <<>>
  ELSE InsertDesc(SortDesc(SubSeq(list, 1, Len(list) - 1)), list[Len(list)])

RECURSIVE FlatMap(_)
FlatMap(lists) ==
  IF lists = <<>> THEN <<>> ELSE Head(lists) \o FlatMap(Tail(lists))

Min(a, b) == IF a <= b THEN a ELSE b

(***************************************************************************)
(* Aggregator: configuration                                               *)
(***************************************************************************)
\* the first two build pipelines and the first release pipeline of the
\* configuration
appRepos ==
  << [name |-> "app1", repo |-> "githubActionsBuildRepo", workflow |-> "app1-build.yml"],
     [name |-> "app2", repo |-> "githubActionsBuildRepo", workflow |-> "app2-build.yml"] >>
releaseRepos ==
  << [name |-> "app1", repo |-> "githubActionsReleaseRepo", workflow |-> "app-release.yml"] >>

Workflows(kind) == IF kind = "Build" THEN appRepos ELSE releaseRepos


(***************************************************************************)
(* Aggregator: passes                                                      *)
(***************************************************************************)
\* number of aggregation passes one behaviour may start
MaxPasses == 2

\* a call of fetchWorkflowDetails that batchProcess has not started yet
NewTask ==
  [st |-> "waiting", runs |-> <<>>, lo |-> 1, inflight |-> {}, res |-> <<>>,
   listErr |-> FALSE, jobErr |-> {}, out |-> <<>>]

\* batchProcess: the chunk items.slice(lo, lo + concurrency) of n items
ChunkEnd(lo, n, concurrency) == Min(lo + concurrency - 1, n)

\* batch.map(processor) on a chunk of job tasks: every listJobsForWorkflowRun
\* call of the chunk is issued before the first await
StartJobsChunk(task, lo) ==
  [task EXCEPT !.st = "jobs", !.lo = lo,
               !.inflight = lo..ChunkEnd(lo, Len(task.runs), CONCURRENT_JOBS)]

\* results.filter(r => r.status === 'fulfilled' && r.value).map(r => r.value)
FilterResults(task) ==
  LET all == [i \in 1..Len(task.runs) |-> task.res[i]] IN
  SelectSeq(all, LAMBDA r : ~IsNull(r))

\* fetchWorkflowDetails after listWorkflowRuns resolved with runs
AfterListRuns(task, runs) ==
  IF runs = <<>> THEN [task EXCEPT !.st = "done", !.out = <<>>]
  ELSE StartJobsChunk([task EXCEPT !.runs = runs], 1)

\* the outer catch of fetchWorkflowDetails
AfterListRunsError(task) ==
  [task EXCEPT !.st = "done", !.listErr = TRUE, !.out = <<>>]

\* the value of the job task of run i: the record, or null from the inner catch
JobTaskValue(run, wf, isRelease, r, t) ==
  IF r.ok THEN MakeRecord(run, wf.name, wf.repo, isRelease, r.jobs, t) ELSE NullRec

\* a job task of the chunk settled; when it was the last one Promise.allSettled
\* resolves and batchProcess goes on to the next chunk or returns
AfterJobSettled(task, i, value, failed) ==
  LET t1 == [task EXCEPT !.res = Put(task.res, i, value),
                         !.inflight = task.inflight \ {i},
                         !.jobErr = IF failed THEN task.jobErr \cup {i} ELSE task.jobErr]
      hi == ChunkEnd(task.lo, Len(task.runs), CONCURRENT_JOBS)
  IN
  IF t1.inflight # {} THEN t1
  ELSE IF hi < Len(task.runs) THEN StartJobsChunk(t1, hi + 1)
  ELSE [t1 EXCEPT !.st = "done", !.out = FilterResults(t1)]

\* batch.map(processor) on a chunk of workflow tasks: every listWorkflowRuns
\* call of the chunk is issued before the first await
StartWorkflowChunk(tasks, lo) ==
  [w \in 1..Len(tasks) |->
     IF w >= lo /\ w <= ChunkEnd(lo, Len(tasks), CONCURRENT_WORKFLOWS)
     THEN [tasks[w] EXCEPT !.st = "listing"] ELSE tasks[w]]

\* fetchBuildData / fetchReleaseData up to their first await
StartStage(pass, kind) ==
  [pass EXCEPT !.stage = kind, !.lo = 1,
               !.tasks[kind] = StartWorkflowChunk(
                                  [w \in 1..Len(Workflows(kind)) |-> NewTask], 1)]

\* fetchBuildData / fetchReleaseData after batchProcess returned
StageResult(tasks) ==
  SortDesc(FlatMap([w \in 1..Len(tasks) |-> tasks[w].out]))

\* a new pass: fetchBuildData() is called
NewPass(kind) ==
  StartStage([kind |-> kind, stage |-> "Build", lo |-> 1,
              tasks |-> [Build |-> <<>>, Release |-> <<>>],
              builds |-> <<>>, releases |-> <<>>], "Build")

\* a workflow task settled: batchProcess of the stage starts its next chunk, or
\* the stage returns its sorted list and the caller goes on (fetchReleaseData
\* after fetchBuildData, the end of the pass after fetchReleaseData)
AfterTaskSettled(pass) ==
  LET kind == pass.stage
      tasks == pass.tasks[kind]
      hi == ChunkEnd(pass.lo, Len(tasks), CONCURRENT_WORKFLOWS)
  IN
  IF \E w \in pass.lo..hi : tasks[w].st # "done" THEN pass
  ELSE IF hi < Len(tasks)
  THEN [pass EXCEPT !.lo = hi + 1, !.tasks[kind] = StartWorkflowChunk(tasks, hi + 1)]
  ELSE IF kind = "Build"
  THEN LET p1 == [pass EXCEPT !.builds = StageResult(tasks)] IN
       IF releaseRepos = <<>> THEN [p1 EXCEPT !.stage = "done"]
       ELSE StartStage(p1, "Release")
  ELSE [pass EXCEPT !.releases = StageResult(tasks), !.stage = "done"]

RECURSIVE SumSeq(_)
SumSeq(q) == IF q = <<>> THEN 0 ELSE Head(q) + SumSeq(Tail(q))

\* number of listJobsForWorkflowRun calls that are awaited
InFlightOf(tasks) ==
  SumSeq([w \in 1..Len(tasks) |-> Cardinality(tasks[w].inflight)])

InFlightJobs ==
  SumSeq([p \in 1..Len(passes) |->
            InFlightOf(passes[p].tasks.Build) + InFlightOf(passes[p].tasks.Release)])

Active(kinds) ==
  {p \in 1..Len(passes) : passes[p].kind \in kinds /\ passes[p].stage # "done"}


(***************************************************************************)
(* Aggregator: the end of a pass                                           *)
(***************************************************************************)
NoBranch == <<>>

\* x / n * 100 cut after the first decimal, in tenths of a percent
ToFixed1Floor(x, n) == (1000 * x) \div n

\* (x / n * 100).toFixed(1), in tenths of a percent
ToFixed1(x, n) == (2000 * x + n) \div (2 * n)

\* the metrics object with queued runs left out of activeRuns
MetricsNoQueued(all) ==
  [totalRuns |-> Len(all),
   successRate |-> IF Len(all) # 0
                   THEN ToFixed1(Len(SelectSeq(all, LAMBDA i : i.conclusion = "success")),
                                 Len(all))
                   ELSE 0,
   activeRuns |-> Len(SelectSeq(all, LAMBDA i : i.status = "in_progress")),
   failedRuns |-> Len(SelectSeq(all, LAMBDA i : i.conclusion = "failure"))]

\* the metrics object of GET /api/dashboard
Metrics(all) ==
  [totalRuns |-> Len(all),
   successRate |-> IF Len(all) # 0
                   THEN ToFixed1(Len(SelectSeq(all, LAMBDA i : i.conclusion = "success")),
                                 Len(all))
                   ELSE 0,
   activeRuns |-> Len(SelectSeq(all, LAMBDA i : i.status \in {"in_progress", "queued"})),
   failedRuns |-> Len(SelectSeq(all, LAMBDA i : i.conclusion = "failure"))]

\* the team and branch filters of GET /api/dashboard
FilterQuery(list, q) ==
  LET byTeam == IF q.team # NoTeam /\ q.team \in DOMAIN TEAMS_CONFIG
                THEN SelectSeq(list, LAMBDA b : b.appName \in TEAMS_CONFIG[q.team].apps)
                ELSE list
  IN IF q.branch # NoBranch
     THEN SelectSeq(byTeam, LAMBDA b : b.branch = q.branch)
     ELSE byTeam

\* GET /api/dashboard after both fetches returned
DashboardResponse(pass, q) ==
  LET builds == FilterQuery(pass.builds, q)
      releases == FilterQuery(pass.releases, q)
  IN [op |-> "dashboard", code |-> 200, gate |-> TRUE, query |-> q,
      builds |-> builds, releases |-> releases,
      metrics |-> Metrics(builds \o releases),
      pass |-> pass]

\* the age below which a run counts as active (ms)
RECENT_MS == 300000

\* the filter without the test for queued runs
ActiveRunsNoQueued(list, t) ==
  SelectSeq(list, LAMBDA b : \/ b.status = "in_progress"
                             \/ t - b.createdAt < RECENT_MS)

\* the filter of the polling callback
ActiveRuns(list, t) ==
  SelectSeq(list, LAMBDA b : \/ b.status = "in_progress"
                             \/ b.status = "queued"
                             \/ t - b.createdAt < RECENT_MS)

\* some listWorkflowRuns call of the pass was refused (rate limit)
ListFailed(pass) ==
  \E kind \in {"Build", "Release"} : \E w \in 1..Len(pass.tasks[kind]) :
     pass.tasks[kind][w].listErr

\* a pass that has returned keeps its kind, whether a call was refused, and
\* the two lists it returned
Ended(pass) == [kind |-> pass.kind, stage |-> "done",
                tasks |-> [Build |-> <<>>, Release |-> <<>>],
                listFailed |-> ListFailed(pass),
                builds |-> pass.builds, releases |-> pass.releases]

\* the step of pass p that made it pass1: when the pass has returned, its
\* caller runs to its end (the response of the request, the broadcast of the tick)
Continue(p, pass1, q) ==
  IF pass1.stage # "done"
  THEN /\ passes' = [passes EXCEPT ![p] = pass1]
       /\ UNCHANGED <<resp, events>>
  ELSE /\ passes' = [passes EXCEPT ![p] = Ended(pass1)]
       /\ IF pass1.kind = "dashboard"
          THEN /\ resp' = DashboardResponse(pass1, q)
               /\ UNCHANGED events
          ELSE LET activeBuilds == ActiveRuns(pass1.builds, now)
                   activeReleases == ActiveRuns(pass1.releases, now)
               IN /\ events' = IF Len(activeBuilds) > 0 \/ Len(activeReleases) > 0
                               THEN broadcastUpdate(events, "workflow_update",
                                      [builds |-> activeBuilds,
                                       releases |-> activeReleases])
                               ELSE events
                  /\ UNCHANGED resp

(***************************************************************************)
(* Aggregator: actions                                                     *)
(***************************************************************************)
\* GET /api/dashboard, up to the first await of fetchBuildData
GetDashboard(user, limit) ==
  /\ UNCHANGED <<now, schedVars, events, wsVars, cacheFile, batch>>
  /\ IF requireAuth(user) # 0
     THEN /\ resp' = [op |-> "dashboard", code |-> 401, gate |-> FALSE]
          /\ UNCHANGED passes
     ELSE /\ Len(passes) < limit
          /\ passes' = Append(passes, NewPass("dashboard"))
          /\ UNCHANGED resp

\* the setInterval callback of startRealtimePolling, up to its first await
PollTick(limit) ==
  /\ Len(passes) < limit
  /\ passes' = Append(passes, NewPass("tick"))
  /\ UNCHANGED <<now, schedVars, events, resp, wsVars, cacheFile, batch>>

\* listWorkflowRuns of workflow w of pass p settles with r
ListRunsSettle(p, w, r, q) ==
  LET pass == passes[p]
      kind == pass.stage
      task == pass.tasks[kind][w]
      task1 == IF r.ok THEN AfterListRuns(task, r.runs) ELSE AfterListRunsError(task)
      pass1 == AfterTaskSettled([pass EXCEPT !.tasks[kind][w] = task1])
  IN /\ task.st = "listing"
     /\ Continue(p, pass1, q)
     /\ sockets' = Delivered
     /\ UNCHANGED <<now, schedVars, regVars, cacheFile, batch>>

\* listJobsForWorkflowRun of run i of workflow w of pass p settles with r
ListJobsSettle(p, w, i, r, q) ==
  LET pass == passes[p]
      kind == pass.stage
      task == pass.tasks[kind][w]
      wf == Workflows(kind)[w]
      value == JobTaskValue(task.runs[i], wf, kind = "Release", r, now)
      task1 == AfterJobSettled(task, i, value, ~r.ok)
      pass1 == AfterTaskSettled([pass EXCEPT !.tasks[kind][w] = task1])
  IN /\ i \in task.inflight
     /\ Continue(p, pass1, q)
     /\ sockets' = Delivered
     /\ UNCHANGED <<now, schedVars, regVars, cacheFile, batch>>

Running == {p \in 1..Len(passes) : passes[p].stage # "done"}
TasksOf(p) == 1..Len(passes[p].tasks[passes[p].stage])
InFlightAt(p, w) == passes[p].tasks[passes[p].stage][w].inflight

(***************************************************************************)
(* Aggregator: what the platform answers                                   *)
(***************************************************************************)
\* number of runs listWorkflowRuns reports for a workflow
MaxRuns == 2

RawRun(i) ==
  [id |-> i, name |-> <<"prod", "app1", "build", "v1">>, head_branch |-> <<"dev01">>,
   head_sha |-> "abc1234def", run_number |-> i, status |-> "completed",
   conclusion |-> "success", created_at |-> i]

RawJobs ==
  << [id |-> 1, name |-> "build", status |-> "completed",
      conclusion |-> "success", steps |-> <<>>] >>

RunList(n) == [i \in 1..n |-> RawRun(i)]

ListRunsAnswers ==
  {[ok |-> TRUE, runs |-> RunList(n)] : n \in 0..MaxRuns}
    \cup {[ok |-> FALSE, error |-> "API rate limit exceeded"]}

ListJobsAnswers ==
  {[ok |-> TRUE, jobs |-> RawJobs], [ok |-> FALSE, error |-> "Server Error"]}

Queries == {[team |-> NoTeam, branch |-> NoBranch],
            [team |-> "frontend", branch |-> <<"main">>]}

NoQuery == [team |-> NoTeam, branch |-> NoBranch]

\* one dashboard request at a time, answered by the platform in any order
NextAgg ==
  \/ \E u \in {"dev1", NoSession} : GetDashboard(u, 1)
  \/ \E p \in Running : \E w \in TasksOf(p) : \E r \in ListRunsAnswers, q \in Queries :
        ListRunsSettle(p, w, r, q)
  \/ \E p \in Running : \E w \in TasksOf(p) : \E i \in InFlightAt(p, w) :
        \E r \in ListJobsAnswers, q \in Queries : ListJobsSettle(p, w, i, r, q)

SpecAgg == Init /\ [][NextAgg]_vars


(***************************************************************************)
(* Fan-out: full pages of runs                                             *)
(***************************************************************************)
\* listWorkflowRuns with per_page = MAX_RUNS_PER_WORKFLOW returns a full page
FullPage == [ok |-> TRUE, runs |-> RunList(MAX_RUNS_PER_WORKFLOW)]

JobsOk == [ok |-> TRUE, jobs |-> RawJobs]

\* the oldest and the newest awaited listJobsForWorkflowRun call of a workflow
Ends(S) == {i \in S : \A j \in S : i <= j} \cup {i \in S : \A j \in S : i >= j}

\* one request; every workflow has a full page of runs; the calls of a
\* workflow are answered from either end of its chunk
NextFanout ==
  \/ GetDashboard("dev1", 1)
  \/ \E p \in Running : \E w \in TasksOf(p) : ListRunsSettle(p, w, FullPage, NoQuery)
  \/ \E p \in Running : \E w \in TasksOf(p) : \E i \in Ends(InFlightAt(p, w)) :
        ListJobsSettle(p, w, i, JobsOk, NoQuery)

SpecFanout == Init /\ [][NextFanout]_vars

(***************************************************************************)
(* Polling                                                                 *)
(***************************************************************************)
\* a run that completed longer ago than RECENT_MS
OldRun == [RawRun(1) EXCEPT !.created_at = 0 - RECENT_MS]

\* a run that has been waiting for a runner for as long
OldQueued == [OldRun EXCEPT !.status = "queued", !.conclusion = ""]

PollRunsAnswers ==
  {[ok |-> TRUE, runs |-> <<>>], [ok |-> TRUE, runs |-> <<RawRun(1)>>],
   [ok |-> TRUE, runs |-> <<OldRun>>],
   [ok |-> FALSE, error |-> "API rate limit exceeded"]}

\* the interval timer fires whatever the state of the earlier callbacks; the
\* platform answers each call at any later moment
NextPoll ==
  \/ PollTick(MaxPasses)
  \/ \E p \in Running : \E w \in TasksOf(p) : \E r \in PollRunsAnswers :
        ListRunsSettle(p, w, r, NoQuery)
  \/ \E p \in Running : \E w \in TasksOf(p) : \E i \in InFlightAt(p, w) :
        \E r \in ListJobsAnswers : ListJobsSettle(p, w, i, r, NoQuery)

SpecPoll == Init /\ [][NextPoll]_vars

(***************************************************************************)
(* Aggregator and poller: properties                                       *)
(***************************************************************************)
\* the passes whose tasks can be inspected: the running ones and the one the
\* last dashboard response was built from
PassRecords ==
  {passes[p] : p \in Running}
    \cup (IF "pass" \in DOMAIN resp THEN {resp.pass} ELSE {})

StageKinds == {"Build", "Release"}

\* C7: at any instant at most CONCURRENT_JOBS (20) listJobsForWorkflowRun
\* calls are in flight, whatever the workflows processed by fetchBuildData /
\* fetchReleaseData through batchProcess.
C7_JobFetchBound == InFlightJobs <= CONCURRENT_JOBS

\* C8: a workflow whose listWorkflowRuns returned n runs, exactly one of whose
\* listJobsForWorkflowRun calls failed, contributes n records: exactly one
\* with status "error" and no jobs, the other n - 1 complete with their jobs.
C8_OneJobFailureKeepsRecord ==
  \A pass \in PassRecords : \A kind \in StageKinds :
    \A w \in 1..Len(pass.tasks[kind]) :
      LET task == pass.tasks[kind][w]
          out == task.out
      IN (task.st = "done" /\ Cardinality(task.jobErr) = 1) =>
           /\ Len(out) = Len(task.runs)
           /\ Cardinality({k \in 1..Len(out) :
                             out[k].status = "error" /\ out[k].jobs = <<>>}) = 1
           /\ \A i \in (1..Len(task.runs)) \ task.jobErr :
                \E k \in 1..Len(out) :
                   /\ out[k].runId = task.runs[i].id
                   /\ out[k].status # "error"
                   /\ out[k].jobs = MapJobs(RawJobs)

\* C9: when listWorkflowRuns fails for one workflow, GET /api/dashboard still
\* answers 200 with the records of every other workflow, and the failure is
\* a record with status "error" of the failed workflow in the answer.
C9_ListRunsFailureEncoded ==
  LET pass == resp.pass
      failed == {x \in StageKinds \X (1..Len(appRepos)) :
                   /\ x[2] <= Len(pass.tasks[x[1]])
                   /\ pass.tasks[x[1]][x[2]].listErr}
      jobsFine == \A kind \in StageKinds : \A w \in 1..Len(pass.tasks[kind]) :
                     pass.tasks[kind][w].jobErr = {}
  IN ("pass" \in DOMAIN resp /\ resp.query = NoQuery
        /\ Cardinality(failed) = 1 /\ jobsFine) =>
     \A x \in failed :
       LET tasks == pass.tasks[x[1]]
           list == IF x[1] = "Build" THEN resp.builds ELSE resp.releases
       IN /\ resp.code = 200
          /\ \A v \in (1..Len(tasks)) \ {x[2]} : \A k \in 1..Len(tasks[v].out) :
                \E j \in 1..Len(list) : list[j] = tasks[v].out[k]
          /\ \E j \in 1..Len(list) :
                /\ list[j].status = "error"
                /\ list[j].repo = Workflows(x[1])[x[2]].repo

\* C10: the poller never has more than one aggregation pass outstanding: the
\* pass of a tick has finished before the pass of the next tick starts.
C10_OnePassOutstanding == Cardinality(Active({"tick"})) <= 1


\* the passes that return in this step
Returning == {p \in Running : passes'[p].stage = "done"}

\* C11: a tick one of whose listWorkflowRuns calls failed with a rate-limit
\* error pushes no event at all: no broadcast is built from the workflows
\* that did answer.
C11_NoPartialBroadcast ==
  [][\A p \in Returning :
        (passes'[p].kind = "tick" /\ passes'[p].listFailed) => events' = events]_vars


(***************************************************************************)
(* Trigger                                                                 *)
(***************************************************************************)
\* POST /api/trigger/workflow with broadcastUpdate called before the await
TriggerWorkflowBroadcastFirst(user, team, ok) ==
  LET gate == Gate("trigger_build", "POST", user, team) IN
  /\ IF gate # 0
     THEN /\ resp' = [op |-> "trigger", code |-> gate, gate |-> FALSE,
                      gateway |-> FALSE, user |-> user, team |-> team,
                      perm |-> FALSE, changed |-> FALSE,
                      required |-> IF requireAuth(user) # 0 THEN {}
                                   ELSE checkPermission("trigger_build", "POST",
                                                        user, team).required]
          /\ UNCHANGED events
     ELSE IF ok
     THEN /\ events' = broadcastUpdate(events, "workflow_triggered", [user |-> user])
          /\ resp' = [op |-> "trigger", code |-> 200, gate |-> TRUE,
                      gateway |-> TRUE, user |-> user, team |-> team,
                      perm |-> TRUE, changed |-> FALSE, required |-> {},
                      gwOk |-> TRUE, error |-> "",
                      sent |-> Cardinality(OpenEntries),
                      skipped |-> Len(activeConnections) - Cardinality(OpenEntries)]
     ELSE /\ resp' = [op |-> "trigger", code |-> 500, gate |-> TRUE,
                      gateway |-> TRUE, user |-> user, team |-> team,
                      perm |-> TRUE, changed |-> FALSE, required |-> {},
                      gwOk |-> FALSE, error |-> "err.message"]
          /\ events' = broadcastUpdate(events, "workflow_triggered", [user |-> user])
  /\ sockets' = Delivered
  /\ UNCHANGED <<now, schedVars, passes, regVars, cacheFile, batch>>

\* POST /api/trigger/workflow; ok: createWorkflowDispatch resolved
TriggerWorkflow(user, team, ok) ==
  LET gate == Gate("trigger_build", "POST", user, team) IN
  /\ IF gate # 0
     THEN /\ resp' = [op |-> "trigger", code |-> gate, gate |-> FALSE,
                      gateway |-> FALSE, user |-> user, team |-> team,
                      perm |-> FALSE, changed |-> FALSE,
                      required |-> IF requireAuth(user) # 0 THEN {}
                                   ELSE checkPermission("trigger_build", "POST",
                                                        user, team).required]
          /\ UNCHANGED events
     ELSE IF ok
     THEN /\ events' = broadcastUpdate(events, "workflow_triggered", [user |-> user])
          /\ resp' = [op |-> "trigger", code |-> 200, gate |-> TRUE,
                      gateway |-> TRUE, user |-> user, team |-> team,
                      perm |-> TRUE, changed |-> FALSE, required |-> {},
                      gwOk |-> TRUE, error |-> "",
                      sent |-> Cardinality(OpenEntries),
                      skipped |-> Len(activeConnections) - Cardinality(OpenEntries)]
     ELSE /\ resp' = [op |-> "trigger", code |-> 500, gate |-> TRUE,
                      gateway |-> TRUE, user |-> user, team |-> team,
                      perm |-> TRUE, changed |-> FALSE, required |-> {},
                      gwOk |-> FALSE, error |-> "err.message"]
          /\ UNCHANGED events
  /\ sockets' = Delivered
  /\ UNCHANGED <<now, schedVars, passes, regVars, cacheFile, batch>>

(***************************************************************************)
(* WebSocket registry                                                      *)
(***************************************************************************)
\* number of WebSocket connections one behaviour accepts
MaxSockets == 2
\* number of broadcasts one behaviour of the registry makes
MaxEvents == 2

\* the usernames clients put in their auth frames
WsNames == {"dev1", "dev2"}

\* the frames a client sends: auth frames (one without username), another
\* type, and text that JSON.parse rejects
WsFrames ==
  {[type |-> "auth", username |-> u] : u \in WsNames \cup {""}}
    \cup {[type |-> "ping", username |-> ""], [type |-> "<unparsable>", username |-> ""]}

\* the mutant of MapSet: a second registration adds a second entry
MapSetAppend(reg, u, s) == Append(reg, [username |-> u, ws |-> s])

\* activeConnections.set(username, ws): an existing key keeps its place
MapSet(reg, u, s) ==
  IF \E i \in 1..Len(reg) : reg[i].username = u
  THEN [i \in 1..Len(reg) |-> IF reg[i].username = u THEN [reg[i] EXCEPT !.ws = s]
                                                     ELSE reg[i]]
  ELSE Append(reg, [username |-> u, ws |-> s])

\* a close handler that deletes the entries of the usernames the socket sent
DeleteByName(reg, s) ==
  SelectSeq(reg, LAMBDA e : e.username \notin sockets[s].auths)

\* the loop of the close handler: the first entry that holds ws is deleted
DeleteFirst(reg, s) ==
  IF EntriesOf(reg, s) = {} THEN reg
  ELSE LET i == CHOOSE k \in EntriesOf(reg, s) : \A j \in EntriesOf(reg, s) : k <= j
       IN SubSeq(reg, 1, i - 1) \o SubSeq(reg, i + 1, Len(reg))

\* wss.on('connection')
WsConnect ==
  /\ Len(sockets) < MaxSockets
  /\ sockets' = Append(sockets, [readyState |-> "OPEN", inbox |-> <<>>, auths |-> {},
                                 replaced |-> {}])
  /\ UNCHANGED <<now, schedVars, events, resp, passes, regVars, cacheFile, batch>>

\* ws.on('message')
WsMessage(s, frame) ==
  /\ sockets[s].readyState \in {"OPEN", "CLOSING"}
  /\ IF frame.type = "auth" /\ frame.username # ""
     THEN /\ activeConnections' = MapSet(activeConnections, frame.username, s)
          /\ lastAuth' = Put(lastAuth, frame.username, s)
          /\ sockets' = [sockets EXCEPT ![s].auths = @ \cup {frame.username}]
     ELSE UNCHANGED wsVars
  /\ UNCHANGED <<now, schedVars, events, resp, passes, cacheFile, batch>>

\* the closing handshake of a socket starts: readyState leaves OPEN before the
\* close notification
WsCloseStart(s) ==
  /\ sockets[s].readyState = "OPEN"
  /\ sockets' = [sockets EXCEPT ![s].readyState = "CLOSING"]
  /\ UNCHANGED <<now, schedVars, events, resp, passes, regVars, cacheFile, batch>>

\* ws.on('close')
WsClose(s) ==
  /\ sockets[s].readyState # "CLOSED"
  \* history: the usernames this socket registered that another socket holds
  \* when the handler runs
  /\ sockets' = [sockets EXCEPT ![s].readyState = "CLOSED",
                                ![s].replaced =
                                   {u \in sockets[s].auths :
                                      \E i \in 1..Len(activeConnections) :
                                         /\ activeConnections[i].username = u
                                         /\ activeConnections[i].ws # s}]
  /\ activeConnections' = DeleteFirst(activeConnections, s)
  /\ UNCHANGED <<now, schedVars, events, resp, passes, lastAuth, cacheFile, batch>>

NextWs ==
  \/ WsConnect
  \/ \E s \in 1..Len(sockets) : \E f \in WsFrames : WsMessage(s, f)
  \/ \E s \in 1..Len(sockets) : WsCloseStart(s)
  \/ \E s \in 1..Len(sockets) : WsClose(s)
  \/ \E ok \in BOOLEAN : Len(events) < MaxEvents /\ TriggerWorkflow("dev1", "frontend", ok)

SpecWs == Init /\ [][NextWs]_vars


(***************************************************************************)
(* Request handlers behind the gate                                        *)
(***************************************************************************)
\* req.body.apps absent
NoApps == <<"<missing>">>

\* a test that looks the app up in the configuration only
ValidAppAnyTeam(configured, team, a) == a \in configured

\* the test of the bulk loops: config.appRepos.find(...) / config.releaseRepos
\* .find(...) gives an entry and teamConfig.apps.includes(appName)
ValidApp(configured, team, a) == a \in configured /\ a \in TEAMS_CONFIG[team].apps

\* the bulk handlers with the loop left at the first createWorkflowDispatch
\* that rejects
BulkTriggerStopAtFirst(op, action, type, configured, user, team, apps, fails) ==
  LET gate == Gate(action, "POST", user, team)
      valid(a) == ValidApp(configured, team, a)
      last == IF \E i \in 1..Len(apps) : valid(apps[i]) /\ i \in fails
              THEN CHOOSE i \in 1..Len(apps) :
                     /\ valid(apps[i]) /\ i \in fails
                     /\ \A j \in 1..(i - 1) : ~(valid(apps[j]) /\ j \in fails)
              ELSE Len(apps)
      results == [i \in 1..last |->
                    [app |-> apps[i], success |-> valid(apps[i]) /\ i \notin fails,
                     error |-> IF ~valid(apps[i]) THEN "not found or not in team"
                               ELSE IF i \in fails THEN "err.message" ELSE ""]]
  IN
  /\ IF gate # 0
     THEN /\ resp' = [op |-> op, code |-> gate, gate |-> FALSE,
                      gateway |-> FALSE, user |-> user, team |-> team,
                      perm |-> FALSE, changed |-> FALSE,
                      required |-> IF requireAuth(user) # 0 THEN {}
                                   ELSE checkPermission(action, "POST",
                                                        user, team).required]
          /\ UNCHANGED events
     ELSE IF apps = NoApps
     THEN /\ resp' = [op |-> op, code |-> 500, gate |-> TRUE,
                      gateway |-> FALSE, user |-> user, team |-> team,
                      perm |-> TRUE, changed |-> FALSE, required |-> {}]
          /\ UNCHANGED events
     ELSE /\ events' = broadcastUpdate(events, type,
                                       [apps |-> apps, team |-> team, user |-> user])
          /\ resp' = [op |-> op, code |-> 200, gate |-> TRUE,
                      gateway |-> (\E i \in 1..last : valid(apps[i])),
                      user |-> user, team |-> team,
                      perm |-> TRUE, changed |-> FALSE, required |-> {},
                      apps |-> apps, fails |-> fails,
                      dispatched |-> {i \in 1..last : valid(apps[i])},
                      results |-> results]
  /\ sockets' = Delivered
  /\ UNCHANGED <<now, schedVars, passes, regVars, cacheFile, batch>>

\* the bulk handlers: the loop over req.body.apps with one try block per
\* createWorkflowDispatch; fails: the positions whose call rejects
BulkTrigger(op, action, type, configured, user, team, apps, fails) ==
  LET gate == Gate(action, "POST", user, team)
      valid(a) == ValidApp(configured, team, a)
      last == Len(apps)
      results == [i \in 1..last |->
                    [app |-> apps[i], success |-> valid(apps[i]) /\ i \notin fails,
                     error |-> IF ~valid(apps[i]) THEN "not found or not in team"
                               ELSE IF i \in fails THEN "err.message" ELSE ""]]
  IN
  /\ IF gate # 0
     THEN /\ resp' = [op |-> op, code |-> gate, gate |-> FALSE,
                      gateway |-> FALSE, user |-> user, team |-> team,
                      perm |-> FALSE, changed |-> FALSE,
                      required |-> IF requireAuth(user) # 0 THEN {}
                                   ELSE checkPermission(action, "POST",
                                                        user, team).required]
          /\ UNCHANGED events
     ELSE IF apps = NoApps
     THEN /\ resp' = [op |-> op, code |-> 500, gate |-> TRUE,
                      gateway |-> FALSE, user |-> user, team |-> team,
                      perm |-> TRUE, changed |-> FALSE, required |-> {}]
          /\ UNCHANGED events
     ELSE /\ events' = broadcastUpdate(events, type,
                                       [apps |-> apps, team |-> team, user |-> user])
          /\ resp' = [op |-> op, code |-> 200, gate |-> TRUE,
                      gateway |-> (\E i \in 1..last : valid(apps[i])),
                      user |-> user, team |-> team,
                      perm |-> TRUE, changed |-> FALSE, required |-> {},
                      apps |-> apps, fails |-> fails,
                      dispatched |-> {i \in 1..last : valid(apps[i])},
                      results |-> results]
  /\ sockets' = Delivered
  /\ UNCHANGED <<now, schedVars, passes, regVars, cacheFile, batch>>

\* config.appRepos.map(a => a.name) and config.releaseRepos.map(r => r.appName)
BuildAppNames == {"app1", "app2", "app3"}
ReleaseAppNames == {"app1", "app2", "app3"}

\* POST /api/trigger/bulk-builds
TriggerBulk(user, team, apps, fails) ==
  BulkTrigger("bulk", "trigger_build", "bulk_builds_triggered", BuildAppNames,
              user, team, apps, fails)

\* POST /api/trigger/bulk-releases
TriggerBulkReleases(user, team, apps, fails) ==
  BulkTrigger("bulk_releases", "trigger_release", "bulk_releases_triggered",
              ReleaseAppNames, user, team, apps, fails)

\* POST /api/cancel/workflow; ok: cancelWorkflowRun resolved
CancelWorkflow(user, ok) ==
  LET gate == Gate("<none>", "POST", user, NoTeam) IN
  /\ IF gate # 0
     THEN /\ resp' = [op |-> "cancel_run", code |-> gate, gate |-> FALSE,
                      gateway |-> FALSE, user |-> user, perm |-> FALSE,
                      changed |-> FALSE]
          /\ UNCHANGED events
     ELSE IF ok
     THEN /\ events' = broadcastUpdate(events, "workflow_cancelled", [user |-> user])
          /\ resp' = [op |-> "cancel_run", code |-> 200, gate |-> TRUE,
                      gateway |-> TRUE, user |-> user, perm |-> FALSE,
                      changed |-> FALSE, gwOk |-> TRUE, error |-> ""]
     ELSE /\ resp' = [op |-> "cancel_run", code |-> 500, gate |-> TRUE,
                      gateway |-> TRUE, user |-> user, perm |-> FALSE,
                      changed |-> FALSE, gwOk |-> FALSE, error |-> "err.message"]
          /\ UNCHANGED events
  /\ sockets' = Delivered
  /\ UNCHANGED <<now, schedVars, passes, regVars, cacheFile, batch>>

\* GET /api/logs/:repo/:runId; team: what the request carries as body.team;
\* ok: listJobsForWorkflowRun resolved
GetLogs(user, team, ok) ==
  LET gate == Gate("view_logs", "GET", user, team) IN
  /\ resp' = IF gate # 0
             THEN [op |-> "logs", code |-> gate, gate |-> FALSE, user |-> user,
                   team |-> team, gateway |-> FALSE]
             ELSE [op |-> "logs", code |-> IF ok THEN 200 ELSE 500, gate |-> TRUE,
                   user |-> user, team |-> team, gateway |-> TRUE]
  /\ UNCHANGED <<now, schedVars, events, passes, wsVars, cacheFile, batch>>

\* the teams requests name: two configured ones, none, one that only the
\* user registry knows, and an inherited property name
GateTeams == {"frontend", "backend", NoTeam, "devops", "constructor"}

BulkApps == {<<"app1">>, <<"app3">>, NoApps}

\* number of broadcasts one behaviour of the request handlers makes
MaxGateEvents == 1

\* the request handlers, called by every session with every team
NextGate ==
  \/ \E u \in Sessions, t \in GateTeams, ok \in BOOLEAN :
        Len(events) < MaxGateEvents /\ TriggerWorkflow(u, t, ok)
  \/ \E u \in Sessions, t \in GateTeams, a \in BulkApps, fails \in {{}, {1}} :
        Len(events) < MaxGateEvents /\ TriggerBulk(u, t, a, fails)
  \/ \E u \in Sessions, ok \in BOOLEAN :
        Len(events) < MaxGateEvents /\ CancelWorkflow(u, ok)
  \/ \E u \in Sessions, t \in GateTeams, ok \in BOOLEAN : GetLogs(u, t, ok)
  \/ \E u \in Sessions, t \in GateTeams :
        ScheduleWorkflow(u, t, <<"r">>, <<"w">>, [kind |-> "time", t |-> 1])
  \/ \E u \in Sessions, id \in KnownIds : CancelScheduled(u, id)
  \/ \E u \in Sessions : ListScheduled(u)

SpecGate == Init /\ [][NextGate]_vars

(***************************************************************************)
(* WebSocket registry: properties                                          *)
(***************************************************************************)
\* C12: the registry holds at most one entry per identity, the entry of an
\* identity holds the socket of its latest auth frame, and a push reaches
\* only sockets that are the latest registration of some identity.
C12_LatestRegistrationWins ==
  [][/\ \A i, j \in 1..Len(activeConnections') :
          activeConnections'[i].username = activeConnections'[j].username => i = j
     /\ \A i \in 1..Len(activeConnections') :
          activeConnections'[i].ws = lastAuth'[activeConnections'[i].username]
     /\ \A s \in 1..Len(sockets) :
          sockets'[s].inbox # sockets[s].inbox =>
             \E u \in DOMAIN lastAuth : lastAuth[u] = s]_vars

\* an identity registered by the first socket and then by the second one; a
\* push has reached the second socket and none the first, which is still open
C12_Witness ==
  /\ Len(sockets) = 2
  /\ \E u \in WsNames :
        /\ sockets[1].auths = {u} /\ sockets[2].auths = {u}
        /\ activeConnections = <<[username |-> u, ws |-> 2]>>
  /\ sockets[1].readyState = "OPEN" /\ sockets[1].inbox = <<>>
  /\ sockets[2].inbox # <<>>

\* C13: once the close notification of a socket has been processed no entry
\* of the registry holds that socket, whatever auth frames it had sent.
C13_ClosedPruned ==
  \A s \in 1..Len(sockets) :
     sockets[s].readyState = "CLOSED" => EntriesOf(activeConnections, s) = {}

\* C14: a broadcast hands the event to every registered socket that is OPEN,
\* passes over every registered socket that is not, and the request that made
\* it is answered normally.
C14_BroadcastSkipsStale ==
  [][events' # events =>
       LET msg == events'[Len(events')] IN
       /\ \A i \in OpenEntries :
            LET s == activeConnections[i].ws IN
            /\ Len(sockets'[s].inbox) > Len(sockets[s].inbox)
            /\ sockets'[s].inbox[Len(sockets'[s].inbox)] = msg
       /\ \A s \in 1..Len(sockets) :
            sockets[s].readyState # "OPEN" => sockets'[s].inbox = sockets[s].inbox
       /\ resp'.code = 200]_vars

\* a broadcast that passed over a stale entry and reached an open one
C14_Witness ==
  /\ resp.op = "trigger" /\ resp.code = 200
  /\ resp.skipped > 0 /\ resp.sent > 0


(***************************************************************************)
(* Access gate: properties                                                 *)
(***************************************************************************)
\* the routes that run checkPermission, with the action they name
GatedOps == {"trigger", "bulk", "schedule"}
RouteAction(op) == IF op = "schedule" THEN "trigger_release" ELSE "trigger_build"

\* the routes that change something
MutatingOps == {"trigger", "bulk", "cancel_run", "schedule", "cancel"}

\* T is a configured team, the identity is a member of T and its role is in
\* permittedRoles(T, A)
Allowed(user, team, action) ==
  /\ team \in TeamNames
  /\ user \in DOMAIN USER_ROLES
  /\ team \in USER_ROLES[user].teams
  /\ USER_ROLES[user].role \in TEAMS_CONFIG[team].permissions[action]

\* C15: a mutating action A against team T by an authenticated identity is
\* allowed exactly when T is configured, the identity is a member of T and
\* its role is permitted for A; dev1 (developer, frontend) may trigger_build
\* on frontend and is refused trigger_release with 403 and required =
\* {lead, admin}.
C15_AllowedIffPermitted ==
  (resp.op \in GatedOps /\ requireAuth(resp.user) = 0) =>
     /\ resp.gate <=> Allowed(resp.user, resp.team, RouteAction(resp.op))
     /\ (resp.user = "dev1" /\ resp.team = "frontend") =>
           IF resp.op = "schedule"
           THEN resp.code = 403 /\ resp.required = {"lead", "admin"}
           ELSE resp.gate

\* dev1 asked for trigger_release on frontend and was refused with the roles
C15_Witness ==
  /\ resp.op = "schedule" /\ resp.user = "dev1" /\ resp.team = "frontend"
  /\ resp.code = 403 /\ resp.required = {"lead", "admin"}

\* C16: the refusals of the gate come in a fixed order: no team gives 400,
\* else an unknown team 404, else a non-member 403, else a role that is not
\* permitted 403 with the permitted roles; a refused request makes no Gateway
\* call, no broadcast and no change to the scheduled jobs.
C16_RefusalOrder ==
  [][LET r == resp' IN
     (r.op \in GatedOps /\ r.user \in DOMAIN USER_ROLES) =>
        LET u == USER_ROLES[r.user]
            permitted == TEAMS_CONFIG[r.team].permissions[RouteAction(r.op)]
        IN
        /\ r.team = NoTeam => r.code = 400
        /\ (r.team # NoTeam /\ r.team \notin TeamNames) => r.code = 404
        /\ (r.team \in TeamNames /\ r.team \notin u.teams) =>
              (r.code = 403 /\ r.required = {})
        /\ (r.team \in TeamNames /\ r.team \in u.teams /\ u.role \notin permitted) =>
              (r.code = 403 /\ r.required = permitted)
        /\ ~r.gate => /\ ~r.gateway
                      /\ events' = events
                      /\ scheduledJobs' = scheduledJobs
                      /\ timers' = timers]_vars

\* C17: a mutating operation calls the Gateway or changes the scheduled jobs
\* only after checkPermission has allowed it for the team membership and the
\* role of the requesting identity.
C17_MutationsGated ==
  (resp.op \in MutatingOps /\ resp.user \in DOMAIN USER_ROLES
     /\ (resp.gateway \/ resp.changed)) => resp.perm

\* the sessions requireAuth lets through
Authenticated == {u \in Sessions : requireAuth(u) = 0}

C19_UnknownIdentityRefused ==
  [][resp'.user \notin DOMAIN USER_ROLES =>
        /\ resp'.code = 401
        /\ ~resp'.gateway
        /\ events' = events
        /\ UNCHANGED schedVars]_vars


(***************************************************************************)
(* Cache file (loadCache / saveCache) and the records of the generator     *)
(***************************************************************************)
CACHE_TTL_MS == 300000

\* JavaScript values that are not objects or arrays
Str(x) == [t |-> "string", s |-> x, n |-> 0]
Num(x) == [t |-> "number", s |-> "", n |-> x]
Null == [t |-> "null", s |-> "", n |-> 0]
Undefined == [t |-> "undefined", s |-> "", n |-> 0]
NaN == [t |-> "NaN", s |-> "", n |-> 0]

\* obj.key: undefined when the object has no such property
JsGet(obj, k) == IF k \in DOMAIN obj THEN obj[k] ELSE Undefined

\* a || b
JsOr(a, b) ==
  IF a.t \in {"undefined", "null", "NaN"} \/ a = Str("") \/ a = Num(0) THEN b ELSE a

\* a record of fetchWorkflowDetails of the generator: the properties that are
\* not arrays, and the jobs
GenRecord(run, jobs, configAppName, isRelease, t) ==
  [fields |->
     [appName |-> Str(configAppName),
      type |-> IF isRelease THEN Str("Release") ELSE Str("Build"),
      branch |-> JsOr(JsGet(run, "head_branch"), Str("N/A")),
      status |-> JsOr(JsGet(run, "status"), Str("unknown")),
      conclusion |-> JsOr(JsGet(run, "conclusion"), JsGet(run, "status")),
      createdAt |-> JsOr(JsGet(run, "created_at"), Str(ToString(t))),
      updatedAt |-> JsOr(JsGet(run, "updated_at"), JsGet(run, "created_at")),
      triggeredBy |-> JsOr(JsGet(run, "actor_login"), Str("System")),
      link |-> JsGet(run, "html_url"),
      commitMessage |-> JsOr(JsGet(run, "display_title"), Str("N/A")),
      runNumber |-> JsOr(JsGet(run, "run_number"), Num(0)),
      attempt |-> JsOr(JsGet(run, "run_attempt"), Num(1)),
      runName |-> JsOr(JsGet(run, "name"), Str("N/A"))],
   jobs |->
     [i \in 1..Len(jobs) |->
        [id |-> JsGet(jobs[i], "id"),
         name |-> JsGet(jobs[i], "name"),
         conclusion |-> JsOr(JsGet(jobs[i], "conclusion"), JsGet(jobs[i], "status")),
         status |-> JsGet(jobs[i], "status"),
         startedAt |-> JsGet(jobs[i], "started_at"),
         completedAt |-> JsGet(jobs[i], "completed_at"),
         htmlUrl |-> JsGet(jobs[i], "html_url")]]]

\* largest number a record holds
MaxNumber == 7

\* JSON.stringify of the properties keys of an object: a property that is
\* undefined is left out, a string is quoted, a number is written in decimal,
\* null and NaN are written null
EncAtoms(obj, keys) ==
  [k \in {x \in keys \cap DOMAIN obj : obj[x].t # "undefined"} |->
     CASE obj[k].t = "string" -> <<"\"", obj[k].s>>
       [] obj[k].t = "number" -> <<ToString(obj[k].n)>>
       [] OTHER -> <<"null">>]

\* JSON.parse of the members of an object
DecAtoms(text) ==
  [k \in DOMAIN text |->
     IF Len(text[k]) = 2 THEN Str(text[k][2])
     ELSE IF text[k] = <<"null">> THEN Null
     ELSE Num(CHOOSE n \in 0..MaxNumber : ToString(n) = text[k][1])]

EncRecord(r) ==
  [fields |-> EncAtoms(r.fields, DOMAIN r.fields),
   jobs |-> [i \in 1..Len(r.jobs) |-> EncAtoms(r.jobs[i], DOMAIN r.jobs[i])]]

DecRecord(e) ==
  [fields |-> DecAtoms(e.fields),
   jobs |-> [i \in 1..Len(e.jobs) |-> DecAtoms(e.jobs[i])]]

\* JSON.stringify({ timestamp: Date.now(), data }, null, 2)
Stringify(data, t) ==
  [exists |-> TRUE, timestamp |-> t,
   data |-> [builds |-> [i \in 1..Len(data.builds) |-> EncRecord(data.builds[i])],
             releases |-> [i \in 1..Len(data.releases) |-> EncRecord(data.releases[i])]]]

\* JSON.parse(fs.readFileSync(CACHE_FILE, 'utf8')).data
ParseData(file) ==
  [builds |-> [i \in 1..Len(file.data.builds) |-> DecRecord(file.data.builds[i])],
   releases |-> [i \in 1..Len(file.data.releases) |-> DecRecord(file.data.releases[i])]]


\* runs and jobs as the remote API reports them
RunDone ==
  [name |-> Str("Build-app1-main"), head_branch |-> Str("main"),
   status |-> Str("completed"), conclusion |-> Str("success"),
   created_at |-> Str("2024-01-01T00:00:00Z"), updated_at |-> Str("2024-01-01T00:05:00Z"),
   actor_login |-> Str("dev1"), html_url |-> Str("https://github.com/o/r/actions/runs/7"),
   display_title |-> Str("fix"), run_number |-> Num(MaxNumber), run_attempt |-> Num(2)]
RunQueued ==
  [status |-> Str("queued"), conclusion |-> Null, run_number |-> Num(0)]
JobDone ==
  [id |-> Num(3), name |-> Str("build"), status |-> Str("completed"),
   conclusion |-> Str("success"), started_at |-> Str("2024-01-01T00:00:05Z"),
   completed_at |-> Str("2024-01-01T00:04:00Z"), html_url |-> Str("https://github.com/o/r/job/3")]
JobQueued ==
  [id |-> Num(4), name |-> Str("test"), status |-> Str("queued"),
   conclusion |-> Null, started_at |-> Null, completed_at |-> Null]

\* { builds, releases } as main hands it to saveCache at time t
Snapshots(t) ==
  {[builds |-> <<GenRecord(RunDone, <<JobDone>>, "app1", FALSE, t)>>,
    releases |-> <<>>],
   [builds |-> <<GenRecord(RunQueued, <<JobDone, JobQueued>>, "app1", FALSE, t)>>,
    releases |-> <<GenRecord(RunDone, <<>>, "app1", TRUE, t)>>],
   [builds |-> <<>>,
    releases |-> <<GenRecord(RunQueued, <<JobQueued>>, "app2", TRUE, t)>>]}

NoData == [builds |-> <<>>, releases |-> <<>>]
NoPut == [op |-> "none"]

\* saveCache(data); ok is whether fs.writeFileSync succeeds
SaveCache(data, ok) ==
  /\ cacheFile' = IF ok THEN Stringify(data, now) ELSE cacheFile
  /\ resp' = [op |-> "saveCache", code |-> 0, data |-> data, written |-> ok, at |-> now]
  /\ UNCHANGED <<now, schedVars, events, passes, wsVars, batch>>

\* a file that fs.readFileSync cannot read, and one that JSON.parse rejects
Unreadable == [exists |-> TRUE, damage |-> "unreadable"]
Truncated == [exists |-> TRUE, damage |-> "truncated"]
Damaged(file) == "damage" \in DOMAIN file

\* Date.now() - cache.timestamp <= CACHE_TTL_MS
FreshLE(file, t) == t - file.timestamp <= CACHE_TTL_MS

\* Date.now() - cache.timestamp < CACHE_TTL_MS
Fresh(file, t) == t - file.timestamp < CACHE_TTL_MS

\* the body of loadCache with the read and the parse outside the try block
ReadCacheNoCatch(file, t) ==
  IF ~file.exists THEN [hit |-> FALSE, value |-> NoData, warned |-> FALSE, threw |-> FALSE]
  ELSE IF Damaged(file)
    THEN [hit |-> FALSE, value |-> NoData, warned |-> FALSE, threw |-> TRUE]
  ELSE IF Fresh(file, t)
    THEN [hit |-> TRUE, value |-> ParseData(file), warned |-> FALSE, threw |-> FALSE]
  ELSE [hit |-> FALSE, value |-> NoData, warned |-> FALSE, threw |-> FALSE]

\* the body of loadCache at time t: what it returns (value is read only on a
\* hit; a miss returns null), whether the catch block warned, and whether an
\* exception left the function
ReadCache(file, t) ==
  IF ~file.exists THEN [hit |-> FALSE, value |-> NoData, warned |-> FALSE, threw |-> FALSE]
  ELSE IF Damaged(file)
    THEN [hit |-> FALSE, value |-> NoData, warned |-> TRUE, threw |-> FALSE]
  ELSE IF Fresh(file, t)
    THEN [hit |-> TRUE, value |-> ParseData(file), warned |-> FALSE, threw |-> FALSE]
  ELSE [hit |-> FALSE, value |-> NoData, warned |-> FALSE, threw |-> FALSE]

\* loadCache()
LoadCache ==
  /\ LET r == ReadCache(cacheFile, now)
     IN  resp' = [op |-> "loadCache", code |-> 0, hit |-> r.hit, value |-> r.value,
                  warned |-> r.warned, threw |-> r.threw,
                  put |-> IF resp.op = "saveCache" THEN resp ELSE NoPut,
                  at |-> now]
  /\ UNCHANGED <<now, schedVars, events, passes, wsVars, cacheFile, batch>>

\* the file is removed, made unreadable, or cut short outside the program
FileDamage(file) ==
  /\ cacheFile # file
  /\ cacheFile' = file
  /\ UNCHANGED <<now, schedVars, events, resp, passes, wsVars, batch>>

CacheTimes == {1, CACHE_TTL_MS - 1, CACHE_TTL_MS, CACHE_TTL_MS + 1}

\* time passes
TimePasses(t) ==
  /\ t > now
  /\ now' = t
  /\ UNCHANGED <<schedVars, events, resp, passes, wsVars, cacheFile, batch>>

NextCache ==
  \/ \E ok \in BOOLEAN : \E data \in Snapshots(now) : SaveCache(data, ok)
  \/ LoadCache
  \/ \E t \in CacheTimes : TimePasses(t)
  \/ \E file \in {NoFile, Unreadable, Truncated} : FileDamage(file)

SpecCache == Init /\ [][NextCache]_vars

(***************************************************************************)
(* Cache properties                                                        *)
(***************************************************************************)
RecordKeys ==
  {"appName", "type", "branch", "status", "conclusion", "createdAt", "updatedAt",
   "triggeredBy", "link", "commitMessage", "runNumber", "attempt", "runName"}
JobKeys == {"id", "name", "conclusion", "status", "startedAt", "completedAt", "htmlUrl"}

\* every property of record a reads the same in record b
SameRecord(a, b) ==
  /\ \A k \in RecordKeys : JsGet(a.fields, k) = JsGet(b.fields, k)
  /\ Len(a.jobs) = Len(b.jobs)
  /\ \A i \in 1..Len(a.jobs) : \A k \in JobKeys : JsGet(a.jobs[i], k) = JsGet(b.jobs[i], k)

SameList(a, b) ==
  /\ Len(a) = Len(b)
  /\ \A i \in 1..Len(a) : SameRecord(a[i], b[i])

SameSnapshot(a, b) == SameList(a.builds, b.builds) /\ SameList(a.releases, b.releases)

\* C20: loadCache() called right after saveCache(x), with no time passed in
\* between, returns x: builds and releases with every property of every record
\* and of every job reading as it did in x.
C20_GetAfterPutReturnsX ==
  (resp.op = "loadCache" /\ resp.put.op = "saveCache" /\ resp.at = resp.put.at)
    => (resp.hit /\ SameSnapshot(resp.value, resp.put.data))

\* the part of C20 that holds: when the write went through, the file gives
\* back every property of every record
CacheRoundTrip ==
  (resp.op = "loadCache" /\ resp.put.op = "saveCache" /\ resp.put.written
     /\ cacheFile = Stringify(resp.put.data, resp.put.at)
     /\ resp.at - resp.put.at < CACHE_TTL_MS)
    => (resp.hit /\ SameSnapshot(resp.value, resp.put.data))

\* a snapshot with a null conclusion and no link came back from the file
CacheRoundTripSeen ==
  /\ resp.op = "loadCache" /\ resp.put.op = "saveCache" /\ resp.put.written /\ resp.hit
  /\ Len(resp.put.data.releases) = 1
  /\ JsGet(resp.value.releases[1].fields, "link") = Undefined
  /\ resp.value.releases[1].jobs[1].startedAt = Null


\* C21: loadCache returns the stored snapshot exactly when the time since the
\* file's timestamp is below the TTL, and null from the instant the two are
\* equal onwards; the call leaves the file as it was and starts no fetch.
C21_FreshOnlyWithinTtl ==
  [][(resp' # resp /\ resp'.op = "loadCache" /\ cacheFile.exists /\ ~Damaged(cacheFile))
       => /\ resp'.hit <=> (now - cacheFile.timestamp < CACHE_TTL_MS)
          /\ resp'.hit => resp'.value = ParseData(cacheFile)
          /\ ~resp'.hit => resp'.value = NoData
          /\ cacheFile' = cacheFile
          /\ passes' = passes /\ events' = events]_vars

\* loadCache answered null at the instant the age of the file equals the TTL
C21_Witness ==
  /\ resp.op = "loadCache" /\ ~resp.hit
  /\ cacheFile.exists /\ ~Damaged(cacheFile)
  /\ resp.at - cacheFile.timestamp = CACHE_TTL_MS

\* C22: with the cache file absent, unreadable or not parseable, loadCache
\* returns null and no exception leaves it.
C22_BadFileIsMiss ==
  [][(resp' # resp /\ resp'.op = "loadCache" /\ (~cacheFile.exists \/ Damaged(cacheFile)))
       => (~resp'.hit /\ resp'.value = NoData /\ ~resp'.threw)]_vars

\* loadCache met a file cut short, warned and returned null
C22_Witness ==
  /\ resp.op = "loadCache" /\ cacheFile = Truncated
  /\ resp.warned /\ ~resp.hit /\ ~resp.threw


(***************************************************************************)
(* Metrics of GET /api/dashboard over given lists                          *)
(***************************************************************************)
\* longest list of builds and longest list of releases
MaxList == 2
MaxReleases == 1

\* status and conclusion of the records: conclusion is run.conclusion || run.status
MetricRecords ==
  {[status |-> "completed", conclusion |-> "success"],
   [status |-> "completed", conclusion |-> "failure"],
   [status |-> "in_progress", conclusion |-> "in_progress"],
   [status |-> "queued", conclusion |-> "queued"]}

RecordLists(max) == UNION {[1..n -> MetricRecords] : n \in 0..max}

\* const all = [...builds, ...releases]; const metrics = {...}
ComputeMetrics(builds, releases) ==
  /\ resp' = [op |-> "metrics", code |-> 200, builds |-> builds, releases |-> releases,
              metrics |-> Metrics(builds \o releases), at |-> now]
  /\ UNCHANGED <<now, schedVars, events, passes, wsVars, cacheFile, batch>>

NextMetrics ==
  \/ \E builds \in RecordLists(MaxList), releases \in RecordLists(MaxReleases) :
       ComputeMetrics(builds, releases)
  \/ TimePasses(1)

SpecMetrics == Init /\ [][NextMetrics]_vars

\* number of records of builds and releases that satisfy a test
CountIn(r, Test(_)) ==
  Cardinality({i \in 1..Len(r.builds) : Test(r.builds[i])})
    + Cardinality({i \in 1..Len(r.releases) : Test(r.releases[i])})

IsSuccess(i) == i.conclusion = "success"
IsActive(i) == i.status \in {"in_progress", "queued"}
IsFailure(i) == i.conclusion = "failure"

\* C23: successRate is 100 * successCount / totalRuns to the nearest tenth
\* (here in tenths of a percent), and 0 when there are no runs, in which case
\* all four metrics are 0.
C23_SuccessRate ==
  resp.op = "metrics" =>
    LET n == Len(resp.builds) + Len(resp.releases)
        k == CountIn(resp, IsSuccess)
        rate == resp.metrics.successRate
    IN /\ n = 0 => resp.metrics = [totalRuns |-> 0, successRate |-> 0,
                                   activeRuns |-> 0, failedRuns |-> 0]
       /\ n > 0 => /\ 2 * (n * rate - 1000 * k) <= n
                   /\ 2 * (1000 * k - n * rate) < n

\* two of three runs succeeded: 66.666... is reported as 66.7
C23_Witness ==
  /\ resp.op = "metrics"
  /\ Len(resp.builds) + Len(resp.releases) = 3
  /\ CountIn(resp, IsSuccess) = 2
  /\ resp.metrics.successRate = 667

\* C24: totalRuns, activeRuns and failedRuns are the counts the spec names,
\* and two computations over the same lists give the same metrics whatever
\* the time between them.
C24_Counts ==
  [][resp'.op = "metrics" =>
       /\ resp'.metrics.totalRuns = Len(resp'.builds) + Len(resp'.releases)
       /\ resp'.metrics.activeRuns = CountIn(resp', IsActive)
       /\ resp'.metrics.failedRuns = CountIn(resp', IsFailure)
       /\ (resp.op = "metrics" /\ resp.builds = resp'.builds
             /\ resp.releases = resp'.releases)
            => resp'.metrics = resp.metrics]_vars

\* the same lists, with a queued and a failed run, were measured at two times
C24_Witness ==
  /\ resp.op = "metrics" /\ resp.at > 0
  /\ resp.metrics.totalRuns = 3 /\ resp.metrics.activeRuns = 2
  /\ resp.metrics.failedRuns = 1
  /\ \E i \in 1..Len(resp.builds) : resp.builds[i].status = "queued"


(***************************************************************************)
(* parseRunName over given names                                           *)
(***************************************************************************)
\* most tokens in a run name
MaxTokens == 5

\* the dash-free tokens run names are made of
Tokens == {"main", "prod", "PROD", "svc", "build", "release", "v1", "abc1234", "ABC1234"}

RunNames == UNION {[1..n -> Tokens] : n \in 0..MaxTokens}

\* a run name and a kind are given
InitParse ==
  /\ now = 0
  /\ scheduledJobs = <<>>
  /\ timers = <<>>
  /\ events = <<>>
  /\ resp \in {[op |-> "input", code |-> 0, name |-> name, isRelease |-> isRelease] :
                 name \in RunNames, isRelease \in BOOLEAN}
  /\ cancelOk = {}
  /\ passes = <<>>
  /\ activeConnections = <<>>
  /\ sockets = <<>>
  /\ lastAuth = <<>>
  /\ cacheFile = NoFile
  /\ batch = NoBatch

\* const parsed = parseRunName(run.name, isRelease)
ParseName ==
  /\ resp.op = "input"
  /\ resp' = [op |-> "parse", code |-> 0, name |-> resp.name, isRelease |-> resp.isRelease,
              parsed |-> parseRunName(resp.name, resp.isRelease)]
  /\ UNCHANGED <<now, schedVars, events, passes, wsVars, cacheFile, batch>>

NextParse == ParseName

SpecParse == InitParse /\ [][NextParse]_vars

RawBranch(r) ==
  SubSeq(r.name, 1,
         Len(r.name) - 2 - (IF r.isRelease THEN 2 ELSE Len(r.parsed.version)))

\* C26: for builds and releases, a parsed branch that is prod in any letter
\* case is returned as main, and every other parsed branch is returned as it
\* stands in the name.
C26_ProdAlias ==
  (resp.op = "parse" /\ ~IsNull(resp.parsed)) =>
    resp.parsed.branch =
      (IF RawBranch(resp) \in {<<"prod">>, <<"Prod">>, <<"PROD">>}
       THEN <<"main">> ELSE RawBranch(resp))

\* PROD-svc-release-v1-abc1234 came back with branch main
C26_Witness ==
  /\ resp.op = "parse" /\ resp.isRelease
  /\ resp.name = <<"PROD", "svc", "release", "v1", "abc1234">>
  /\ resp.parsed.branch = <<"main">>

\* tokens matching [a-f0-9]{7,} without the /i flag
LowerHexTokens == {"abc1234", "abc1234def"}

\* C27: a release name parses exactly when it is branch, app, the release
\* marker, one version token and a final lowercase hex token of seven or more
\* characters; every other name gives null.
C27_ReleaseGrammar ==
  (resp.op = "parse" /\ resp.isRelease) =>
    LET n == Len(resp.name)
        matches == /\ n >= 5
                   /\ resp.name[n - 2] \in ReleaseMarkers
                   /\ resp.name[n] \in LowerHexTokens
    IN /\ matches <=> ~IsNull(resp.parsed)
       /\ matches => resp.parsed =
            [appName |-> resp.name[n - 3],
             branch |-> AliasBranch(SubSeq(resp.name, 1, n - 4)),
             version |-> <<resp.name[n - 1]>>,
             commit |-> Substring7(resp.name[n])]


(***************************************************************************)
(* The fields of a record over given runs                                  *)
(***************************************************************************)
\* run names: none, build and release names that parse, and names that do not
ResolveNames ==
  {<<>>,
   <<"main", "svc", "build", "v1">>,
   <<"prod", "svc", "build", "v1">>,
   <<"main", "svc", "release", "v1", "abc1234">>,
   <<"main", "svc", "release", "v1">>,
   <<"nightly">>}

\* the runs the platform may report
ResolveRuns ==
  {[RawRun(i) EXCEPT !.name = name, !.head_branch = hb, !.head_sha = sha] :
     i \in {1, MaxRuns}, name \in ResolveNames,
     hb \in {<<>>, <<"dev01">>}, sha \in {"", "abc1234def"}}

\* a run and a kind are given
InitResolve ==
  /\ now = 0
  /\ scheduledJobs = <<>>
  /\ timers = <<>>
  /\ events = <<>>
  /\ resp \in {[op |-> "run", code |-> 0, run |-> run, isRelease |-> isRelease] :
                 run \in ResolveRuns, isRelease \in BOOLEAN}
  /\ cancelOk = {}
  /\ passes = <<>>
  /\ activeConnections = <<>>
  /\ sockets = <<>>
  /\ lastAuth = <<>>
  /\ cacheFile = NoFile
  /\ batch = NoBatch

\* the record fetchWorkflowDetails builds for the run once its jobs arrived
ResolveRecord ==
  /\ resp.op = "run"
  /\ resp' = [op |-> "record", code |-> 0, run |-> resp.run, isRelease |-> resp.isRelease,
              record |-> MakeRecord(resp.run, "app1", "githubActionsBuildRepo",
                                    resp.isRelease, RawJobs, now)]
  /\ UNCHANGED <<now, schedVars, events, passes, wsVars, cacheFile, batch>>

NextResolve == ResolveRecord

SpecResolve == InitResolve /\ [][NextResolve]_vars

\* C28: appName, branch, version and commit of a record each take the parsed
\* value when the name parsed and gave one, else what the platform reported
\* (head_branch, the first seven characters of head_sha, run_number in
\* build-<run_number>), else the default.
C28_FieldPriority ==
  resp.op = "record" =>
    LET run == resp.run
        rec == resp.record
        parsed == parseRunName(run.name, resp.isRelease)
        has == ~IsNull(parsed)
    IN /\ has => /\ rec.appName = parsed.appName
                 /\ rec.branch = parsed.branch
                 /\ rec.version = parsed.version
                 /\ parsed.commit # "" => rec.commitSha = parsed.commit
       /\ ~has => /\ rec.appName = "app1"
                  /\ rec.branch = (IF run.head_branch # <<>> THEN run.head_branch
                                   ELSE <<"N/A">>)
                  /\ rec.version = <<"build", ToString(run.run_number)>>
       /\ (~has \/ parsed.commit = "") =>
            rec.commitSha = (IF run.head_sha # "" THEN "abc1234" ELSE "N/A")

\* the name gave branch main while the platform reported dev01, and the build
\* name gave no commit, so the commit came from head_sha
C28_Witness ==
  /\ resp.op = "record" /\ ~resp.isRelease
  /\ resp.run.name = <<"main", "svc", "build", "v1">>
  /\ resp.run.head_branch = <<"dev01">>
  /\ resp.record.branch = <<"main">>
  /\ resp.record.commitSha = "abc1234"


(***************************************************************************)
(* Bulk triggers                                                           *)
(***************************************************************************)
\* the lists of apps requests carry: a configured app, one that is not in
\* the configuration between two that are, one of another team, and none
BulkLists ==
  {<<"app1">>, <<"app1", "unknown-app", "app2">>, <<"app3", "app1">>,
   <<"app2", "app1">>, NoApps}

BulkUsers == {"john.doe", "dev1", "viewer.user", NoSession}
BulkTeams == TeamNames \cup {NoTeam}

NextBulk ==
  \/ \E u \in BulkUsers, t \in BulkTeams, a \in BulkLists : \E fails \in SUBSET (1..Len(a)) :
        Len(events) < MaxGateEvents /\ TriggerBulk(u, t, a, fails)
  \/ \E u \in BulkUsers, t \in BulkTeams, a \in BulkLists : \E fails \in SUBSET (1..Len(a)) :
        Len(events) < MaxGateEvents /\ TriggerBulkReleases(u, t, a, fails)

SpecBulk == Init /\ [][NextBulk]_vars

\* C29: a bulk request that passed the gate with a list of apps is answered
\* with one result per app in the order of the request; an app that is not
\* configured or not of the team, and an app whose dispatch fails, get a
\* failed result of their own, and every other app is still dispatched.
C29_OneResultPerItem ==
  (resp.op \in {"bulk", "bulk_releases"} /\ resp.gate /\ resp.code # 500) =>
    LET known(a) == a \in {"app1", "app2", "app3"} /\ a \in TEAMS_CONFIG[resp.team].apps
    IN /\ resp.code = 200
       /\ Len(resp.results) = Len(resp.apps)
       /\ \A i \in 1..Len(resp.apps) :
            /\ resp.results[i].app = resp.apps[i]
            /\ resp.results[i].success <=> (known(resp.apps[i]) /\ i \notin resp.fails)
            /\ ~resp.results[i].success => resp.results[i].error # ""
            /\ known(resp.apps[i]) => i \in resp.dispatched

\* the first dispatch failed and the second app is unknown; the third was
\* dispatched and succeeded
C29_Witness ==
  /\ resp.op = "bulk" /\ resp.code = 200
  /\ resp.apps = <<"app1", "unknown-app", "app2">> /\ resp.fails = {1}
  /\ ~resp.results[1].success /\ ~resp.results[2].success /\ resp.results[3].success


(***************************************************************************)
(* Trigger and cancel: failures of the Gateway                             *)
(***************************************************************************)
\* C30: when createWorkflowDispatch or cancelWorkflowRun fails, the request
\* is answered with a failure that carries the message and nothing is
\* broadcast; when the call succeeds, the request is answered 200 and one
\* workflow_triggered or workflow_cancelled event is broadcast.
C30_FailurePropagates ==
  [][((resp' # resp \/ events' # events)
        /\ resp'.op \in {"trigger", "cancel_run"} /\ resp'.gate) =>
       /\ ~resp'.gwOk => /\ resp'.code = 500 /\ resp'.error # ""
                         /\ events' = events
       /\ resp'.gwOk => /\ resp'.code = 200
                        /\ Len(events') = Len(events) + 1
                        /\ events'[Len(events')].type =
                             (IF resp'.op = "trigger" THEN "workflow_triggered"
                              ELSE "workflow_cancelled")]_vars

\* a dispatch that passed the gate failed: 500 with the message, no event
C30_Witness ==
  /\ resp.op = "trigger" /\ resp.gate /\ ~resp.gwOk
  /\ resp.code = 500 /\ resp.error # ""
  /\ events = <<>>


(***************************************************************************)
(* batchProcess(items, processor, concurrency)                             *)
(***************************************************************************)
\* most items and largest concurrency of a call
MaxItems == 4
MaxConcurrency == 2

Settled == {"fulfilled", "rejected"}

\* Promise.all in place of Promise.allSettled: the await ends at the first
\* rejection, or when every promise of the batch is fulfilled
BatchAwaitedAll(st, lo, hi) ==
  \/ \E i \in lo..hi : st[i] = "rejected"
  \/ \A i \in lo..hi : st[i] = "fulfilled"

\* await Promise.allSettled(batch.map(processor)) is over: every promise of
\* the batch has settled
BatchAwaited(st, lo, hi) == \A i \in lo..hi : st[i] \in Settled

\* batch.map(processor): the processor is called on every item of the slice
StartBatch(st, lo, hi) ==
  [i \in 1..Len(st) |-> IF i >= lo /\ i <= hi THEN "pending" ELSE st[i]]

\* a call with n items is about to be made
InitBatch ==
  /\ now = 0
  /\ scheduledJobs = <<>>
  /\ timers = <<>>
  /\ events = <<>>
  /\ resp = [op |-> "none", code |-> 0, gate |-> FALSE]
  /\ cancelOk = {}
  /\ passes = <<>>
  /\ activeConnections = <<>>
  /\ sockets = <<>>
  /\ lastAuth = <<>>
  /\ cacheFile = NoFile
  /\ batch \in {[st |-> "called", n |-> n, concurrency |-> c] :
                  n \in 0..MaxItems, c \in 1..MaxConcurrency}

\* batchProcess up to its first await, or to its return when items is empty
BatchCall ==
  /\ batch.st = "called"
  /\ batch' = IF batch.n = 0
              THEN [st |-> "returned", n |-> 0, concurrency |-> batch.concurrency,
                    lo |-> 1, items |-> <<>>, results |-> <<>>]
              ELSE [st |-> "awaiting", n |-> batch.n, concurrency |-> batch.concurrency,
                    lo |-> 1,
                    items |-> StartBatch([i \in 1..batch.n |-> "waiting"], 1,
                                         ChunkEnd(1, batch.n, batch.concurrency)),
                    results |-> <<>>]
  /\ UNCHANGED <<now, schedVars, events, resp, passes, wsVars, cacheFile>>

\* the promise of item i settles; when that ends the await, the results of the
\* batch are pushed and the loop starts the next batch or returns
BatchSettle(i, outcome) ==
  /\ batch.st = "awaiting"
  /\ i \in 1..batch.n
  /\ batch.items[i] = "pending"
  /\ LET items == [batch.items EXCEPT ![i] = outcome]
         hi == ChunkEnd(batch.lo, batch.n, batch.concurrency)
         results == batch.results \o
                      [k \in 1..(hi - batch.lo + 1) |->
                         [status |-> items[batch.lo + k - 1], item |-> batch.lo + k - 1]]
     IN batch' =
          IF ~BatchAwaited(items, batch.lo, hi)
          THEN [batch EXCEPT !.items = items]
          ELSE IF hi < batch.n
          THEN [batch EXCEPT !.items = StartBatch(items, hi + 1,
                                          ChunkEnd(hi + 1, batch.n, batch.concurrency)),
                             !.lo = hi + 1, !.results = results]
          ELSE [batch EXCEPT !.items = items, !.st = "returned", !.results = results]
  /\ UNCHANGED <<now, schedVars, events, resp, passes, wsVars, cacheFile>>

NextBatch ==
  \/ BatchCall
  \/ \E i \in 1..MaxItems, outcome \in Settled : BatchSettle(i, outcome)

SpecBatch == InitBatch /\ [][NextBatch]_vars

\* the batch item i belongs to, counted from 0
BatchOf(i) == (i - 1) \div batch.concurrency

\* C31: no item of a batch has been handed to the processor while an item of
\* an earlier batch is unsettled; a rejection leaves the other items of its
\* batch and all later batches to run; when the call returns, every item has
\* settled and the results are the outcomes of the items in input order.
C31_ChunkBarrier ==
  batch.st \in {"awaiting", "returned"} =>
    /\ \A i, j \in 1..batch.n :
         (batch.items[i] # "waiting" /\ BatchOf(j) < BatchOf(i))
           => batch.items[j] \in Settled
    /\ batch.st = "returned" =>
         /\ Len(batch.results) = batch.n
         /\ \A i \in 1..batch.n :
              /\ batch.items[i] \in Settled
              /\ batch.results[i] = [status |-> batch.items[i], item |-> i]

\* the first item was rejected, its batch mate and the next batch ran, and
\* the call returned
C31_Witness ==
  /\ batch.st = "returned" /\ batch.n = MaxItems /\ batch.concurrency = 2
  /\ batch.items[1] = "rejected"
  /\ batch.items[2] = "fulfilled" /\ batch.items[3] = "fulfilled"


(***************************************************************************)
(* Aggregator: the records of a pass                                       *)
(***************************************************************************)
\* C32: a run whose listJobsForWorkflowRun call failed is in the list of its
\* workflow as a record with status error and no jobs, and with the appName,
\* branch and version the record has when the jobs arrive.
C32_DegradedKeepsFields ==
  \A pass \in PassRecords : \A kind \in StageKinds :
    \A w \in 1..Len(pass.tasks[kind]) :
      LET task == pass.tasks[kind][w]
          wf == Workflows(kind)[w]
      IN task.st = "done" =>
           \A i \in task.jobErr :
             LET full == MakeRecord(task.runs[i], wf.name, wf.repo,
                                    kind = "Release", RawJobs, now)
             IN \E k \in 1..Len(task.out) :
                  /\ task.out[k].runId = task.runs[i].id
                  /\ task.out[k].status = "error" /\ task.out[k].jobs = <<>>
                  /\ task.out[k].appName = full.appName
                  /\ task.out[k].branch = full.branch
                  /\ task.out[k].version = full.version


(***************************************************************************)
(* fetchBuildData / fetchReleaseData over given lists                      *)
(***************************************************************************)
\* most records of one workflow, and the latest createdAt
MaxPerWorkflow == 2
MaxCreatedAt == 2

\* the lists fetchWorkflowDetails may return for the workflow at position w:
\* records with run ids of their own and any createdAt
WorkflowLists(w) ==
  LET ids == ((w - 1) * MaxPerWorkflow + 1)..(w * MaxPerWorkflow) IN
  {l \in UNION {[1..n -> [runId : ids, createdAt : 1..MaxCreatedAt]] :
                  n \in 0..MaxPerWorkflow} :
     \A i, j \in 1..Len(l) : l[i].runId = l[j].runId => i = j}

\* the values of the workflow tasks are given
InitMerge ==
  /\ now = 0
  /\ scheduledJobs = <<>>
  /\ timers = <<>>
  /\ events = <<>>
  /\ resp \in {[op |-> "settled", code |-> 0, values |-> <<l1, l2>>] :
                 l1 \in WorkflowLists(1), l2 \in WorkflowLists(2)}
  /\ cancelOk = {}
  /\ passes = <<>>
  /\ activeConnections = <<>>
  /\ sockets = <<>>
  /\ lastAuth = <<>>
  /\ cacheFile = NoFile
  /\ batch = NoBatch

\* results.filter(...).flatMap(r => r.value).sort(...)
MergeStage ==
  /\ resp.op = "settled"
  /\ resp' = [op |-> "merged", code |-> 0, values |-> resp.values,
              list |-> StageResult([w \in 1..Len(resp.values) |->
                                      [out |-> resp.values[w]]])]
  /\ UNCHANGED <<now, schedVars, events, passes, wsVars, cacheFile, batch>>

NextMerge == MergeStage

SpecMerge == InitMerge /\ [][NextMerge]_vars

\* position of the record of run id in a list
PosOf(list, id) == CHOOSE k \in 1..Len(list) : list[k].runId = id

\* C33: the list of a kind holds the records of all its workflows, newest
\* first, and records of one createdAt stand in the order of the workflows in
\* the configuration and, within a workflow, in the order of its runs.
C33_MergedStableSort ==
  resp.op = "merged" =>
    LET merged == resp.values[1] \o resp.values[2]
        list == resp.list
    IN /\ Len(list) = Len(merged)
       /\ \A k \in 1..Len(merged) : \E j \in 1..Len(list) : list[j] = merged[k]
       /\ \A i, j \in 1..Len(list) :
            i < j => /\ list[i].createdAt >= list[j].createdAt
                     /\ list[i].createdAt = list[j].createdAt
                          => PosOf(merged, list[i].runId) < PosOf(merged, list[j].runId)

\* runs 1 and 3 of two workflows have one createdAt and kept their order,
\* behind the newer run 2
C33_Witness ==
  /\ resp.op = "merged"
  /\ resp.values = << <<[runId |-> 1, createdAt |-> 1], [runId |-> 2, createdAt |-> 2]>>,
                      <<[runId |-> 3, createdAt |-> 1]>> >>
  /\ resp.list = <<[runId |-> 2, createdAt |-> 2], [runId |-> 1, createdAt |-> 1],
                   [runId |-> 3, createdAt |-> 1]>>


(***************************************************************************)
(* Polling: what a tick pushes                                             *)
(***************************************************************************)
MaxTicks == 1

\* the answers of the polling specification and a page that holds a queued
\* run and a completed run, both older than five minutes
TickRunsAnswers == PollRunsAnswers \cup {[ok |-> TRUE, runs |-> <<OldQueued, OldRun>>]}

NextTick ==
  \/ PollTick(MaxTicks)
  \/ \E p \in Running : \E w \in TasksOf(p) : \E r \in TickRunsAnswers :
        ListRunsSettle(p, w, r, NoQuery)
  \/ \E p \in Running : \E w \in TasksOf(p) : \E i \in InFlightAt(p, w) :
        \E r \in ListJobsAnswers : ListJobsSettle(p, w, i, r, NoQuery)

SpecTick == Init /\ [][NextTick]_vars

\* the records of a list that are in progress, queued, or younger than five
\* minutes at time t
ActiveAt(list, t) ==
  LET keep == {k \in 1..Len(list) :
                 \/ list[k].status \in {"in_progress", "queued"}
                 \/ t - list[k].createdAt < 300000}
      Before(k) == Cardinality({j \in keep : j < k})
  IN [n \in 1..Cardinality(keep) |->
        list[CHOOSE k \in keep : Before(k) = n - 1]]

\* C34: when the pass of a tick returns, an event is pushed exactly when some
\* build or release of the pass is active, and the event holds exactly the
\* active builds and the active releases.
C34_TickPushesActive ==
  [][\A p \in Returning :
        passes'[p].kind = "tick" =>
          LET b == ActiveAt(passes'[p].builds, now)
              r == ActiveAt(passes'[p].releases, now)
          IN IF b = <<>> /\ r = <<>>
             THEN events' = events
             ELSE events' = Append(events, [type |-> "workflow_update",
                                            data |-> [builds |-> b, releases |-> r]])]_vars

\* a tick pushed a queued run that is older than five minutes and left out
\* the completed run of the same age
C34_Witness ==
  /\ Len(events) > 0
  /\ \E k \in 1..Len(passes) :
       /\ passes[k].kind = "tick" /\ passes[k].stage = "done"
       /\ Len(passes[k].builds) = 2
       /\ events[Len(events)].data.builds = ActiveAt(passes[k].builds, now)
       /\ Len(events[Len(events)].data.builds) = 1
       /\ events[Len(events)].data.builds[1].status = "queued"


(***************************************************************************)
(* Aggregator: the values of status and conclusion                         *)
(***************************************************************************)
RecordStatuses == {"queued", "in_progress", "completed", "error"}

RecordConclusions == {"success", "failure", "cancelled", "none"}

\* C35: every record a pass returns has a status among queued, in_progress,
\* completed, error and a conclusion among success, failure, cancelled, none.
C35_StatusAndConclusionSets ==
  \A p \in 1..Len(passes) :
    passes[p].stage = "done" =>
      LET all == passes[p].builds \o passes[p].releases
      IN \A k \in 1..Len(all) :
           all[k].status \in RecordStatuses /\ all[k].conclusion \in RecordConclusions


(***************************************************************************)
(* Scheduler: a cancelled id is never dispatched                           *)
(***************************************************************************)
\* C36: a timer that was set under an id before a cancel request for the id
\* was answered ok, at a moment when no timer of the id had run, never runs:
\* createWorkflowDispatch is not called for it.
C36_NoDispatchAfterCancel ==
  \A t \in 1..Len(timers) : timers[t].revoked => ~Fired(t)


(***************************************************************************)
(* WebSocket registry: the close of a replaced socket                      *)
(***************************************************************************)
\* C37: when a socket closes after another socket has taken over a username
\* it had registered, the close handler leaves that username registered and
\* mapped to the other socket.
C37_CloseKeepsNewer ==
  [][\A s \in 1..Len(sockets) :
        (sockets[s].readyState # "CLOSED" /\ sockets'[s].readyState = "CLOSED") =>
          \A u \in sockets[s].auths :
            \A i \in 1..Len(activeConnections) :
              (activeConnections[i].username = u /\ activeConnections[i].ws # s) =>
                \E j \in 1..Len(activeConnections') :
                   activeConnections'[j] = activeConnections[i]]_vars

\* a socket closed while a username it had registered was held by a socket
\* that is open, and the username is still mapped to that socket
C37_Witness ==
  \E s \in 1..Len(sockets) :
    /\ sockets[s].readyState = "CLOSED"
    /\ \E u \in sockets[s].replaced :
         \E i \in 1..Len(activeConnections) :
           /\ activeConnections[i].username = u
           /\ activeConnections[i].ws # s
           /\ sockets[activeConnections[i].ws].readyState = "OPEN"


(***************************************************************************)
(* WebSocket registry: who receives a push                                 *)
(***************************************************************************)
\* a targeted send that forgets the target: every registered open socket gets
\* the message
SendToEveryone(socks, reg, targetUsername, msg) == Send(socks, reg, msg)

\* broadcastUpdate with a targetUsername: activeConnections.get(target), and
\* ws.send(message) if there is such a socket and it is OPEN
SendTo(socks, reg, targetUsername, msg) ==
  [s \in 1..Len(socks) |->
     IF /\ \E i \in 1..Len(reg) : reg[i].username = targetUsername /\ reg[i].ws = s
        /\ socks[s].readyState = "OPEN"
     THEN [socks[s] EXCEPT !.inbox = Append(@, msg)]
     ELSE socks[s]]

\* broadcastUpdate(type, data, targetUsername)
TargetedPush(targetUsername) ==
  /\ Len(events) < MaxEvents
  /\ events' = broadcastUpdate(events, "notice", [target |-> targetUsername])
  /\ sockets' = SendTo(sockets, activeConnections, targetUsername,
                       events'[Len(events')])
  /\ resp' = [op |-> "push", code |-> 0, gate |-> FALSE, target |-> targetUsername]
  /\ UNCHANGED <<now, schedVars, passes, regVars, cacheFile, batch>>

NextPush ==
  \/ WsConnect
  \/ \E s \in 1..Len(sockets) : \E f \in WsFrames : WsMessage(s, f)
  \/ \E s \in 1..Len(sockets) : WsCloseStart(s)
  \/ \E s \in 1..Len(sockets) : WsClose(s)
  \/ \E ok \in BOOLEAN : Len(events) < MaxEvents /\ TriggerWorkflow("dev1", "frontend", ok)
  \/ \E u \in WsNames : TargetedPush(u)

SpecPush == Init /\ [][NextPush]_vars

\* C38: a socket that has sent no auth frame with a username is handed no
\* message by any push, and a push with a target is handed to no socket other
\* than the one the registry holds for the target, and to that one once.
C38_PushNeedsRegistration ==
  [][/\ \A s \in 1..Len(sockets) :
          sockets[s].auths = {} => sockets'[s].inbox = <<>>
     /\ (events' # events /\ resp'.op = "push") =>
          \A s \in 1..Len(sockets) :
            sockets'[s].inbox # sockets[s].inbox =>
              /\ \E i \in 1..Len(activeConnections) :
                    /\ activeConnections[i].username = resp'.target
                    /\ activeConnections[i].ws = s
              /\ sockets'[s].inbox = Append(sockets[s].inbox, events'[Len(events')])]_vars

\* two open sockets registered under two usernames; a push with a target has
\* reached the socket of the target and not the other
C38_Witness ==
  /\ resp.op = "push" /\ Len(sockets) = 2
  /\ \E i, j \in 1..Len(activeConnections) :
        /\ activeConnections[i].username = resp.target
        /\ activeConnections[j].username # resp.target
        /\ activeConnections[i].ws # activeConnections[j].ws
        /\ sockets[activeConnections[j].ws].readyState = "OPEN"
        /\ sockets[activeConnections[i].ws].inbox # <<>>
        /\ sockets[activeConnections[j].ws].inbox = <<>>


(***************************************************************************)
(* Bulk triggers: which apps reach the Gateway                             *)
(***************************************************************************)
\* C39: a bulk request calls createWorkflowDispatch only for the apps of its
\* list that are configured and belong to the named team; every other app of
\* the list gets a failed result and no call, and a request the gate refused
\* makes no call at all.
C39_DispatchOnlyTeamApps ==
  resp.op \in {"bulk", "bulk_releases"} =>
    IF resp.gate /\ resp.code = 200
    THEN LET names == IF resp.op = "bulk" THEN BuildAppNames ELSE ReleaseAppNames
             mine(a) == a \in names /\ a \in TEAMS_CONFIG[resp.team].apps
         IN /\ \A i \in resp.dispatched : mine(resp.apps[i])
            /\ resp.gateway <=> resp.dispatched # {}
            /\ \A i \in 1..Len(resp.apps) :
                 ~mine(resp.apps[i]) =>
                    /\ i \notin resp.dispatched
                    /\ ~resp.results[i].success
                    /\ resp.results[i].error = "not found or not in team"
    ELSE ~resp.gateway

\* a request named a configured app of another team next to one of its own:
\* only the second reached the Gateway
C39_Witness ==
  /\ resp.op \in {"bulk", "bulk_releases"} /\ resp.code = 200
  /\ \E i \in 1..Len(resp.apps) :
        /\ resp.apps[i] \in {"app1", "app2", "app3"}
        /\ resp.apps[i] \notin TEAMS_CONFIG[resp.team].apps
        /\ i \notin resp.dispatched
  /\ resp.dispatched # {}

=============================================================================
